---- MODULE Spec2Model ----
(***************************************************************************)
(* The verse-image text overlay of the Bible Study Tracker, as it is coded *)
(* three times over:                                                       *)
(*   "cli"  src/create_social_graphic.py  (__main__, load_fonts,           *)
(*                                          draw_text_lines)               *)
(*   "lf"   src/create_social_graphic.py  load_fonts called as a library   *)
(*   "cvo"  src/services/image/create_verse_overlay.py create_verse_overlay*)
(*   "cvi"  src/backend/app.py            create_verse_image               *)
(* One call runs from its first statement to its return, its exception or  *)
(* its exit.  Positions are kept doubled (x2 = 2*x, y2 = 2*y) so that the  *)
(* true divisions by 2 of create_verse_overlay stay integers.              *)
(***************************************************************************)
EXTENDS Integers, Sequences, FiniteSets, TLC

VARIABLES
    variant,            \* which of the entry points this call is
    pc,                 \* the statement the call is at
    style,              \* the theme argument (style / --style)
    text_lines,         \* the list of {text, style} lines (cli, cvo)
    verse_text,         \* the verse string (cvi)
    is_url,             \* cvo: image_path starts with http:// or https://
    http_status,        \* status of the HTTP response, 0 when none was received
    raw_size,           \* the size Image.open reported, before any resize
    img,                \* the opened image, NoImg before Image.open returned
    fonts,              \* style key -> opened font, NoFont where none
    lines,              \* cvi: the wrapped lines
    total_text_height,  \* the measured block height
    text_y2,            \* doubled y of the next line to draw
    start_y2,           \* doubled y the drawing pass started at
    drawn,              \* the draw.text calls made so far, in order
    result,             \* what the call returned: "", an output path, a data URI
    saved,              \* the output file / buffer was written
    printed,            \* the messages printed or logged, in order
    error,              \* the exception that left the call, "" if none
    font_source,        \* how font resolution ended: "none" before it ran,
                        \* "named", "system_arial", "default", or the failure
                        \* "missing_dir", "unopened", "default_failed"
    exit_code,          \* cli: the process exit code, -1 while running
    cc_pc,              \* concurrent calls: the statement each call is at
    cc_args,            \* concurrent calls: each call's arguments
    cc_env,             \* concurrent calls: what the image source and the font
                        \* files gave each call
    cc_frame,           \* concurrent calls: the local variables, by frame
    cc_out,             \* concurrent calls: what each call handed back
    sheet,              \* backend: the Sessions sheet, sheet row -> cells A..Z
    memory,             \* backend: the Memory service, key -> stored entry
    enabled,            \* backend: which MCP services the configuration enables
    req,                \* backend: the request each worker thread is handling
    started,            \* backend: how many requests have been received
    tasks,              \* backend: the digest tasks Taskmaster has created
    hist,               \* backend: history of the run: the writes made to
                        \* each session's row, and by completed requests
    nl,                 \* newsletter script: where it is, and its locals
    docs,               \* newsletter script: the Google documents, id -> text
    doc_writes,         \* newsletter script: the Docs / Drive write requests
                        \* issued, in order
    fi,                 \* fetch_images: where the call is, and its locals
    disk                \* fetch_images: the files in output_dir, path -> state

vars == <<variant, pc, style, text_lines, verse_text, is_url, http_status,
          raw_size, img, fonts, lines, total_text_height, text_y2, start_y2, drawn, result,
          saved, printed, error, font_source, exit_code,
          cc_pc, cc_args, cc_env, cc_frame, cc_out,
          sheet, memory, enabled, req, started, tasks, hist,
          nl, docs, doc_writes, fi, disk>>

(* ------------------------------ bounds -------------------------------- *)
MaxLines == 2        \* longest text_lines list explored
MaxTextLen == 5      \* longest verse_text explored, in characters

(* ------------------------------- text --------------------------------- *)
\* A text is a sequence of characters; "a" is a narrow lower-case letter,
\* "A" its upper case, " " white space.
Chars == {"a", "A", " "}

upper_char(c) == IF c = "a" THEN "A" ELSE c

upper(text) == [k \in 1..Len(text) |-> upper_char(text[k])]

\* glyph advance and glyph height in half ems
CharAdvance(c) == IF c = "A" THEN 2 ELSE 1
CharHeight(c) == IF c = "A" THEN 2 ELSE IF c = "a" THEN 1 ELSE 0

RECURSIVE SumAdvance(_)
SumAdvance(text) ==
    IF text = <<>> THEN 0 ELSE CharAdvance(Head(text)) + SumAdvance(Tail(text))

RECURSIVE MaxHeight(_)
MaxHeight(text) ==
    IF text = <<>> THEN 0
    ELSE LET r == MaxHeight(Tail(text))
             h == CharHeight(Head(text))
         IN IF h > r THEN h ELSE r

\* ImageDraw.textlength(text, font): the advance of the text in pixels
textlength(text, font) == SumAdvance(text) * (font.size \div 2)

\* ImageDraw.textbbox((0,0), text, font): width and height of the ink box
textbbox_width(text, font) == textlength(text, font)
textbbox_height(text, font) == MaxHeight(text) * (font.height \div 2)

\* str.split(): the maximal runs of non-white-space characters
FirstWordLen(text) ==
    IF \E k \in 1..Len(text) : text[k] = " "
    THEN (CHOOSE k \in 1..Len(text) :
              text[k] = " " /\ \A j \in 1..(k - 1) : text[j] # " ") - 1
    ELSE Len(text)

RECURSIVE split(_)
split(text) ==
    IF text = <<>> THEN <<>>
    ELSE IF Head(text) = " " THEN split(Tail(text))
    ELSE LET n == FirstWordLen(text)
         IN <<SubSeq(text, 1, n)>> \o split(SubSeq(text, n + 1, Len(text)))

\* " ".join(words)
RECURSIVE join(_)
join(words) ==
    IF words = <<>> THEN <<>>
    ELSE IF Len(words) = 1 THEN words[1]
    ELSE words[1] \o <<" ">> \o join(Tail(words))

RECURSIVE TextsUpTo(_)
TextsUpTo(n) ==
    IF n = 0 THEN {<<>>}
    ELSE LET S == TextsUpTo(n - 1)
         IN S \cup {Append(t, c) : t \in {s \in S : Len(s) = n - 1}, c \in Chars}

(* ------------------------------- fonts -------------------------------- *)
StyleKeys == {"normal", "highlight", "reference"}

NoFont == [name |-> "", size |-> 0, height |-> 0]
NoFonts == [k \in StyleKeys |-> NoFont]

\* ImageFont.truetype(name, size) of a font that opens.  The ink height of
\* a capital is a property of the font file: about the nominal size, or
\* half as much again for a font with tall glyphs (script faces).
truetype(name, size, tall) ==
    [name |-> name, size |-> size,
     height |-> IF tall THEN (3 * size) \div 2 ELSE size]

\* ImageFont.load_default(): the small built-in font
load_default == [name |-> "default", size |-> 10, height |-> 10]

\* mutant: the default of fonts.get is the reference font
fonts_get_reference(fs, key) == IF key \in StyleKeys THEN fs[key] ELSE fs["reference"]

\* fonts.get(style, fonts["normal"])
fonts_get(fs, key) == IF key \in StyleKeys THEN fs[key] ELSE fs["normal"]

\* load_fonts: the theme tables
font_files ==
    [elegant |-> [normal |-> "Sacramento-Regular.ttf",
                  highlight |-> "SeaportScript-Regular.otf",
                  reference |-> "DMSans-Regular.ttf"],
     modern  |-> [normal |-> "RedHatDisplay-Regular.ttf",
                  highlight |-> "TiltWarp-Regular.ttf",
                  reference |-> "DMSans-Regular.ttf"],
     bold    |-> [normal |-> "Arial_Bold.ttf",
                  highlight |-> "Impact.ttf",
                  reference |-> "DMSans-Bold.ttf"]]

font_sizes ==
    [elegant |-> [normal |-> 72, highlight |-> 90, reference |-> 48],
     modern  |-> [normal |-> 48, highlight |-> 56, reference |-> 36],
     bold    |-> [normal |-> 48, highlight |-> 56, reference |-> 36]]

ThemeNames == DOMAIN font_files

\* the theme names a caller may pass; "neon" is in no table
StyleArgs == ThemeNames \cup {"neon"}

\* the font resources load_fonts may try to open for a theme
load_fonts_candidates(style_name, isdir) ==
    IF ~isdir THEN {"arial.ttf", "arialbd.ttf"}
    ELSE IF style_name \in ThemeNames
         THEN {font_files[style_name][k] : k \in StyleKeys}
         ELSE {}

\* mutant: a font of the theme that does not open is skipped, not raised
load_fonts_skipping(style_name, isdir, installed, tall) ==
    IF ~isdir
    THEN IF {"arial.ttf", "arialbd.ttf"} \subseteq installed
         THEN [error |-> "",
               fonts |-> [normal |-> truetype("arial.ttf", 48, tall),
                          highlight |-> truetype("arialbd.ttf", 60, tall),
                          reference |-> truetype("arial.ttf", 36, tall)],
               source |-> "system_arial",
               printed |-> <<"Warning: Font directory not found",
                             "Warning: Using fallback system Arial fonts">>]
         ELSE [error |-> "RuntimeError", fonts |-> NoFonts, source |-> "unopened",
               printed |-> <<"Warning: Font directory not found">>]
    ELSE IF style_name \notin ThemeNames
    THEN [error |-> "ValueError", fonts |-> NoFonts, source |-> "none",
          printed |-> <<>>]
    ELSE [error |-> "",
          fonts |-> [k \in StyleKeys |->
                       IF font_files[style_name][k] \in installed
                       THEN truetype(font_files[style_name][k],
                                     font_sizes[style_name][k], tall)
                       ELSE NoFont],
          source |-> IF \A k \in StyleKeys : font_files[style_name][k] \in installed
                     THEN "named" ELSE "unopened",
          printed |-> <<>>]

\* load_fonts(style_name, base_path): isdir is os.path.isdir(base_path),
\* installed the resources that open.  The outcome is the returned dict or
\* the exception raised.
load_fonts(style_name, isdir, installed, tall) ==
    IF ~isdir
    THEN IF {"arial.ttf", "arialbd.ttf"} \subseteq installed
         THEN [error |-> "",
               fonts |-> [normal |-> truetype("arial.ttf", 48, tall),
                          highlight |-> truetype("arialbd.ttf", 60, tall),
                          reference |-> truetype("arial.ttf", 36, tall)],
               source |-> "system_arial",
               printed |-> <<"Warning: Font directory not found",
                             "Warning: Using fallback system Arial fonts">>]
         ELSE [error |-> "RuntimeError", fonts |-> NoFonts, source |-> "unopened",
               printed |-> <<"Warning: Font directory not found">>]
    ELSE IF style_name \notin ThemeNames
    THEN [error |-> "ValueError", fonts |-> NoFonts, source |-> "none",
          printed |-> <<>>]
    ELSE IF \A k \in StyleKeys : font_files[style_name][k] \in installed
    THEN [error |-> "",
          fonts |-> [k \in StyleKeys |->
                       truetype(font_files[style_name][k],
                                font_sizes[style_name][k], tall)],
          source |-> "named", printed |-> <<>>]
    ELSE [error |-> "IOError", fonts |-> NoFonts, source |-> "unopened",
          printed |-> <<"Error loading font">>]

\* create_verse_overlay: the system fonts it names for a style
cvo_candidates(style_name) ==
    IF style_name = "elegant"
    THEN {"Times New Roman", "Zapfino.ttf", "Comic Sans MS", "Arial"}
    ELSE {"Arial", "Arial Bold"}

\* create_verse_overlay, the body of its font try block: the three fonts, or
\* raised = TRUE when a truetype call outside the inner try blocks raised
cvo_try_fonts(style_name, installed, tall) ==
    IF style_name = "elegant"
    THEN IF "Times New Roman" \in installed /\ "Arial" \in installed
         THEN LET normal_font == truetype("Times New Roman", 40, tall)
              IN [raised |-> FALSE,
                  fonts |-> [normal |-> normal_font,
                             highlight |->
                                IF "Zapfino.ttf" \in installed
                                THEN truetype("Zapfino.ttf", 80, tall)
                                ELSE IF "Comic Sans MS" \in installed
                                THEN truetype("Comic Sans MS", 80, tall)
                                ELSE normal_font,
                             reference |-> truetype("Arial", 30, tall)]]
         ELSE [raised |-> TRUE, fonts |-> NoFonts]
    ELSE IF "Arial" \in installed /\ "Arial Bold" \in installed
         THEN [raised |-> FALSE,
               fonts |-> [normal |-> truetype("Arial", 40, tall),
                          highlight |-> truetype("Arial Bold", 60, tall),
                          reference |-> truetype("Arial", 30, tall)]]
         ELSE [raised |-> TRUE, fonts |-> NoFonts]

\* the fallback of the except clause: every style gets the built-in font
default_fonts == [k \in StyleKeys |-> load_default]

(* ------------------------------- images ------------------------------- *)
NoImg == [width |-> 0, height |-> 0]

\* the sizes of the pictures behind an image path or URL
RawSizes == {<<150, 100>>, <<300, 60>>, <<1200, 800>>, <<3000, 1000>>, <<1000, 900>>}

Abs(n) == IF n < 0 THEN 0 - n ELSE n
Max(a, b) == IF a > b THEN a ELSE b

\* Image.thumbnail((bx, by)) on a w x h image: the new size
thumbnail(w, h, bx, by) ==
    IF bx >= w /\ by >= h THEN [width |-> w, height |-> h]
    ELSE IF bx * h >= w * by
    THEN LET fl == (by * w) \div h
             ce == IF (by * w) % h = 0 THEN fl ELSE fl + 1
             n == IF Abs(w * by - fl * h) <= Abs(w * by - ce * h) THEN fl ELSE ce
         IN [width |-> Max(n, 1), height |-> by]
    ELSE LET fl == (bx * h) \div w
             ce == IF (bx * h) % w = 0 THEN fl ELSE fl + 1
             n == IF fl = 0 \/ Abs(w * fl - bx * h) * ce <= Abs(w * ce - bx * h) * fl
                  THEN fl ELSE ce
         IN [width |-> bx, height |-> Max(n, 1)]

max_size == [width |-> 1200, height |-> 800]

(* ------------------- create_verse_image: word wrap -------------------- *)
\* mutant: the comparison is inverted
wrap_accepts_inverted(current_line, word, max_width, font) ==
    textlength(current_line \o <<" ">> \o word, font) >= max_width

\* mutant: the test measures the line before the word is appended
wrap_accepts_stale(current_line, word, max_width, font) ==
    textlength(current_line, font) <= max_width

\* the test of the wrap loop: does current_line + " " + word fit
wrap_accepts(current_line, word, max_width, font) ==
    textlength(current_line \o <<" ">> \o word, font) <= max_width

\* the loop over words[1:], with the final lines.append(current_line)
RECURSIVE wrap_loop(_, _, _, _, _)
wrap_loop(rest, current_line, acc, max_width, font) ==
    IF rest = <<>> THEN Append(acc, current_line)
    ELSE IF wrap_accepts(current_line, Head(rest), max_width, font)
    THEN wrap_loop(Tail(rest), current_line \o <<" ">> \o Head(rest), acc,
                   max_width, font)
    ELSE wrap_loop(Tail(rest), Head(rest), Append(acc, current_line),
                   max_width, font)

\* words[0] raises IndexError on an empty list
wrap_raises(words) == words = <<>>

\* mutant: the loop runs over words instead of words[1:]
wrap_from_first(words, max_width, font) ==
    wrap_loop(words, Head(words), <<>>, max_width, font)

\* the lines of a text with at least one word
wrap(words, max_width, font) ==
    wrap_loop(Tail(words), Head(words), <<>>, max_width, font)

cvi_max_width(image) == image.width - 200

(* ------------------------------- layout ------------------------------- *)
RECURSIVE SumSeq(_)
SumSeq(s) == IF s = <<>> THEN 0 ELSE Head(s) + SumSeq(Tail(s))

\* draw_text_lines
dtl_line_spacing == 10

dtl_line_height(line, fs) == textbbox_height(line.text, fonts_get(fs, line.style))

\* mutant: the spacing is added after the last line too
dtl_total_height_trailing(tl, fs) ==
    SumSeq([k \in 1..Len(tl) |-> dtl_line_height(tl[k], fs) + dtl_line_spacing])

dtl_total_height(tl, fs) ==
    SumSeq([k \in 1..Len(tl) |->
              dtl_line_height(tl[k], fs)
              + (IF k - 1 < Len(tl) - 1 THEN dtl_line_spacing ELSE 0)])

\* mutant: the start position is not clamped to the top margin
dtl_start_y_unclamped(image_height, total) == (image_height - total) \div 2

dtl_start_y(image_height, total) ==
    LET current_y == (image_height - total) \div 2
    IN IF current_y < image_height \div 10 THEN image_height \div 10
       ELSE current_y

\* mutant: only the image width is halved
dtl_x_unhalved(image_width, text_width) == image_width \div 2 - text_width

dtl_x(image_width, text_width) == (image_width - text_width) \div 2

\* mutant: y advances by the line height alone
dtl_advance_no_spacing(line_height) == line_height

dtl_advance(line_height) == line_height + dtl_line_spacing

\* create_verse_overlay
cvo_line_spacing == 20

cvo_line_height(line_style) ==
    IF line_style = "highlight" THEN 90
    ELSE IF line_style = "reference" THEN 40
    ELSE 50

cvo_font(fs, line_style) ==
    IF line_style = "highlight" THEN fs["highlight"]
    ELSE IF line_style = "reference" THEN fs["reference"]
    ELSE fs["normal"]

cvo_text(line) == IF line.style = "reference" THEN upper(line.text) ELSE line.text

cvo_total_height(tl) ==
    SumSeq([k \in 1..Len(tl) |-> cvo_line_height(tl[k].style)])
    + cvo_line_spacing * (Len(tl) - 1)

\* text_y = (img.height - total_text_height) / 2, doubled
cvo_start_y2(image_height, total) == image_height - total

\* text_x = (img.width - text_width) / 2, doubled
cvo_x2(image_width, text_width) == image_width - text_width

cvo_advance(line_height) == line_height + cvo_line_spacing

shadow_offset == 2

\* create_verse_image
cvi_line_step == 50

cvi_start_y(image_height, n) == (image_height - n * cvi_line_step) \div 2

cvi_x(image_width, text_width) == (image_width - text_width) \div 2

(* ------------------------------- inputs ------------------------------- *)
LineTexts == {<<"a">>, <<"A", "a">>}

\* "title" is a style token outside normal / highlight / reference
LineStyles == StyleKeys \cup {"title"}

Line == [text : LineTexts, style : LineStyles]

RECURSIVE ListsUpTo(_)
ListsUpTo(n) ==
    IF n = 0 THEN {<<>>}
    ELSE LET S == ListsUpTo(n - 1)
         IN S \cup {Append(l, x) : l \in {s \in S : Len(s) = n - 1}, x \in Line}

LineLists == ListsUpTo(MaxLines)

VerseTexts == TextsUpTo(MaxTextLen)

\* default_text_lines of the command line: five lines, normal / highlight /
\* normal / normal / reference
default_text_lines ==
    <<[text |-> <<"A", "a">>, style |-> "normal"],
      [text |-> <<"a">>, style |-> "highlight"],
      [text |-> <<"a">>, style |-> "normal"],
      [text |-> <<"a">>, style |-> "normal"],
      [text |-> <<"A">>, style |-> "reference"]>>

Variants == {"cli", "lf", "cvo", "cvi"}

(* -------------------------------- Init -------------------------------- *)
\* the backend is not running
SessIdle ==
    /\ sheet = <<>> /\ memory = <<>> /\ enabled = {} /\ req = <<>>
    /\ started = 0 /\ tasks = {} /\ hist = <<>>

\* neither script is running
ScriptsIdle ==
    /\ nl = <<>> /\ docs = <<>> /\ doc_writes = <<>> /\ fi = <<>> /\ disk = <<>>

\* two calls of create_verse_image / create_verse_overlay in flight at once
Calls == {1, 2}

NoArgs == [kind |-> "none", verse_text |-> <<>>, text_lines |-> <<>>,
           style |-> ""]

\* overlapped records that the call drew a line while another call was in the
\* middle of its own drawing loop
NoEnv == [img |-> NoImg, fonts |-> NoFonts, overlapped |-> FALSE]

\* the locals of one call before its first assignment
NoFrame == [img |-> NoImg, fonts |-> NoFonts, lines |-> <<>>, text_y2 |-> 0,
            drawn |-> <<>>]

NoOut == [result |-> "", drawn |-> <<>>, error |-> ""]

FirstPc(v) == IF v = "cli" THEN "args" ELSE IF v = "lf" THEN "fonts" ELSE "open"

Init ==
    /\ variant \in Variants
    /\ pc = FirstPc(variant)
    /\ style \in (IF variant = "cvi" THEN {"elegant"} ELSE StyleArgs)
    /\ text_lines \in (IF variant = "cvo" THEN LineLists ELSE {<<>>})
    /\ verse_text \in (IF variant = "cvi" THEN VerseTexts ELSE {<<>>})
    /\ is_url \in (IF variant = "cvo" THEN BOOLEAN
                   ELSE IF variant = "cvi" THEN {TRUE} ELSE {FALSE})
    /\ http_status = 0
    /\ raw_size = NoImg
    /\ img = NoImg
    /\ fonts = NoFonts
    /\ lines = <<>>
    /\ total_text_height = 0
    /\ text_y2 = 0
    /\ start_y2 = 0
    /\ drawn = <<>>
    /\ result = ""
    /\ saved = FALSE
    /\ printed = <<>>
    /\ error = ""
    /\ font_source = "none"
    /\ exit_code = -1
    /\ cc_pc = [p \in Calls |-> "idle"]
    /\ cc_args = [p \in Calls |-> NoArgs]
    /\ cc_env = [p \in Calls |-> NoEnv]
    /\ cc_frame = [p \in Calls |-> NoFrame]
    /\ cc_out = [p \in Calls |-> NoOut]
    /\ SessIdle
    /\ ScriptsIdle

cc_vars == <<cc_pc, cc_args, cc_env, cc_frame, cc_out>>
sess_vars == <<sheet, memory, enabled, req, started, tasks, hist>>
script_vars == <<nl, docs, doc_writes, fi, disk>>
args_vars == <<variant, style, verse_text, is_url, cc_vars, sess_vars, script_vars>>
layout_vars == <<lines, total_text_height, text_y2, start_y2, drawn>>
out_vars == <<result, saved>>

\* mutant: the except clause logs and does not re-raise
Raise_swallowed(exc, msgs) ==
    /\ pc' = "done"
    /\ printed' = printed \o msgs
    /\ UNCHANGED <<error, exit_code>>

\* an exception leaves the call (cvo, cvi, lf), after the except clause logged it
Raise(exc, msgs) ==
    /\ pc' = "failed"
    /\ error' = exc
    /\ printed' = printed \o msgs
    /\ UNCHANGED exit_code

\* mutant: the message is printed and the process exits with code 0
Exit1_zero(msgs) ==
    /\ pc' = "failed"
    /\ exit_code' = 0
    /\ printed' = printed \o msgs
    /\ UNCHANGED error

\* sys.exit(1) after a message (cli)
Exit1(msgs) ==
    /\ pc' = "failed"
    /\ exit_code' = 1
    /\ printed' = printed \o msgs
    /\ UNCHANGED error

(* ------------------- create_social_graphic.py __main__ ----------------- *)
\* the lines built from verse-info.json
verse_info_lines(words, reference) ==
    IF Len(words) <= 5
    THEN <<[text |-> join(words), style |-> "highlight"],
           [text |-> reference, style |-> "reference"]>>
    ELSE LET third == Len(words) \div 3
         IN <<[text |-> join(SubSeq(words, 1, third)), style |-> "normal"],
              [text |-> join(SubSeq(words, third + 1, 2 * third)),
               style |-> "highlight"],
              [text |-> join(SubSeq(words, 2 * third + 1, Len(words))),
               style |-> "normal"],
              [text |-> reference, style |-> "reference"]>>

VerseInfoTexts ==
    {<<"a", " ", "A">>,
     <<"a", " ", "a", " ", "a", " ", "a", " ", "a", " ", "A">>}

\* --text-lines given and parsed
cli_ParseGiven ==
    /\ variant = "cli" /\ pc = "args"
    /\ \E tl \in LineLists : text_lines' = tl
    /\ pc' = "check_image"
    /\ UNCHANGED <<args_vars, font_source, http_status, raw_size, img, fonts, layout_vars, out_vars,
                   printed, error, exit_code>>

\* mutant: a parse error ends the run with exit code 1
cli_ParseError_exits ==
    /\ variant = "cli" /\ pc = "args"
    /\ printed' = printed \o <<"Error parsing text lines">>
    /\ pc' = "failed"
    /\ exit_code' = 1
    /\ UNCHANGED <<args_vars, font_source, text_lines, http_status, raw_size,
                   img, fonts, layout_vars, out_vars, error>>

\* --text-lines given, json.load / json.loads raised
cli_ParseError ==
    /\ variant = "cli" /\ pc = "args"
    /\ text_lines' = default_text_lines
    /\ printed' = printed \o <<"Error parsing text lines",
                               "Using default text lines instead.">>
    /\ pc' = "check_image"
    /\ UNCHANGED <<args_vars, font_source, http_status, raw_size, img, fonts, layout_vars, out_vars,
                   error, exit_code>>

\* no --text-lines: verse-info.json, or the default lines
cli_ParseAbsent ==
    /\ variant = "cli" /\ pc = "args"
    /\ \/ /\ text_lines' = default_text_lines
          /\ UNCHANGED printed
       \/ /\ text_lines' = default_text_lines
          /\ printed' = printed \o <<"Error loading verse-info.json",
                                     "Using default text lines instead.">>
       \/ /\ \E t \in VerseInfoTexts :
                text_lines' = verse_info_lines(split(t), <<"A", "a">>)
          /\ UNCHANGED printed
    /\ pc' = "check_image"
    /\ UNCHANGED <<args_vars, font_source, http_status, raw_size, img, fonts, layout_vars, out_vars,
                   error, exit_code>>

cli_CheckImage ==
    /\ variant = "cli" /\ pc = "check_image"
    /\ \E exists \in BOOLEAN :
          IF exists
          THEN pc' = "check_font_dir" /\ UNCHANGED <<printed, error, exit_code>>
          ELSE Exit1(<<"Error: Input image not found!">>)
    /\ UNCHANGED <<args_vars, font_source, text_lines, http_status, raw_size, img, fonts, layout_vars,
                   out_vars>>

cli_CheckFontDir ==
    /\ variant = "cli" /\ pc = "check_font_dir"
    /\ \E isdir \in BOOLEAN :
          IF isdir
          THEN pc' = "fonts" /\ UNCHANGED <<printed, error, exit_code, font_source>>
          ELSE /\ Exit1(<<"Error: Font directory not found!">>)
               /\ font_source' = "missing_dir"
    /\ UNCHANGED <<args_vars, text_lines, http_status, raw_size, img, fonts, layout_vars,
                   out_vars>>

\* fonts_loaded = load_fonts(style_arg, base_path=font_dir_arg)
cli_LoadFonts ==
    /\ variant = "cli" /\ pc = "fonts"
    /\ \E installed \in SUBSET load_fonts_candidates(style, TRUE),
          tall \in BOOLEAN :
          LET r == load_fonts(style, TRUE, installed, tall)
          IN /\ font_source' = r.source
             /\ IF r.error = ""
                THEN /\ fonts' = r.fonts
                     /\ pc' = "open"
                     /\ printed' = printed \o r.printed
                     /\ UNCHANGED <<error, exit_code>>
                ELSE /\ Exit1(r.printed \o <<"Error loading fonts">>)
                     /\ UNCHANGED fonts
    /\ UNCHANGED <<args_vars, text_lines, http_status, raw_size, img, layout_vars, out_vars>>

\* Image.open(image_path_arg).convert("RGBA"), then the darkening composite
cli_OpenImage ==
    /\ variant = "cli" /\ pc = "open"
    /\ \/ \E sz \in RawSizes :
             /\ raw_size' = [width |-> sz[1], height |-> sz[2]]
             /\ img' = raw_size'
             /\ pc' = "measure"
             /\ UNCHANGED <<printed, error, exit_code>>
       \/ /\ Exit1(<<"Error opening image">>)
          /\ UNCHANGED <<img, raw_size>>
    /\ UNCHANGED <<args_vars, font_source, text_lines, http_status, fonts,
                   layout_vars, out_vars>>

\* draw_text_lines, the measuring loop and the start position
cli_Measure ==
    /\ variant = "cli" /\ pc = "measure"
    /\ total_text_height' = dtl_total_height(text_lines, fonts)
    /\ text_y2' = 2 * dtl_start_y(img.height, total_text_height')
    /\ start_y2' = text_y2'
    /\ pc' = "draw"
    /\ UNCHANGED <<args_vars, font_source, text_lines, http_status, raw_size, img, fonts, lines, drawn,
                   out_vars, printed, error, exit_code>>

\* draw_text_lines, one turn of the drawing loop
cli_DrawLine ==
    /\ variant = "cli" /\ pc = "draw" /\ Len(drawn) < Len(text_lines)
    /\ LET line == text_lines[Len(drawn) + 1]
           font == fonts_get(fonts, line.style)
           text_width == textbbox_width(line.text, font)
           line_height == textbbox_height(line.text, font)
       IN /\ drawn' = Append(drawn,
                         [kind |-> "text", text |-> line.text, font |-> font,
                          x2 |-> 2 * dtl_x(img.width, text_width),
                          y2 |-> text_y2, fill |-> "white"])
          /\ text_y2' = text_y2 + 2 * dtl_advance(line_height)
    /\ UNCHANGED <<args_vars, font_source, pc, text_lines, http_status, raw_size, img, fonts, lines,
                   total_text_height, start_y2, out_vars, printed, error,
                   exit_code>>

\* an exception inside draw_text_lines is not caught: the process dies
cli_DrawFail ==
    /\ variant = "cli" /\ pc = "draw" /\ Len(drawn) < Len(text_lines)
    /\ pc' = "failed"
    /\ error' = "Exception"
    /\ exit_code' = 1
    /\ UNCHANGED <<args_vars, font_source, text_lines, http_status, raw_size, img, fonts, layout_vars,
                   out_vars, printed>>

\* image.convert("RGB").save(output_path_arg)
cli_Save ==
    /\ variant = "cli" /\ pc = "draw" /\ Len(drawn) = Len(text_lines)
    /\ \/ /\ saved' = TRUE
          /\ printed' = printed \o <<"Image saved to">>
          /\ pc' = "done"
          /\ exit_code' = 0
          /\ UNCHANGED error
       \/ /\ Exit1(<<"Error saving image">>)
          /\ UNCHANGED saved
    /\ UNCHANGED <<args_vars, font_source, text_lines, http_status, raw_size, img, fonts, layout_vars,
                   result>>

\* load_fonts called on its own
lf_LoadFonts ==
    /\ variant = "lf" /\ pc = "fonts"
    /\ \E isdir \in BOOLEAN :
       \E installed \in SUBSET load_fonts_candidates(style, isdir),
          tall \in BOOLEAN :
          LET r == load_fonts(style, isdir, installed, tall)
          IN /\ font_source' = r.source
             /\ IF r.error = ""
                THEN /\ fonts' = r.fonts
                     /\ pc' = "done"
                     /\ printed' = printed \o r.printed
                     /\ UNCHANGED <<error, exit_code>>
                ELSE /\ Raise(r.error, r.printed)
                     /\ UNCHANGED fonts
    /\ UNCHANGED <<args_vars, text_lines, http_status, raw_size, img, layout_vars, out_vars>>

(* ------------------------- create_verse_overlay ------------------------ *)
cvo_log == <<"Error creating verse overlay">>

\* mutant: the guard asks for both dimensions to exceed the box
cvo_resize_and(w, h) ==
    IF w > max_size.width /\ h > max_size.height
    THEN thumbnail(w, h, max_size.width, max_size.height)
    ELSE [width |-> w, height |-> h]

\* the size after the guarded img.thumbnail((1200, 800))
cvo_resize(w, h) ==
    IF w > max_size.width \/ h > max_size.height
    THEN thumbnail(w, h, max_size.width, max_size.height)
    ELSE [width |-> w, height |-> h]

\* requests.get + Image.open for a URL, Image.open for a path; convert; resize
cvo_OpenImage ==
    /\ variant = "cvo" /\ pc = "open"
    /\ \/ /\ is_url
          /\ Raise("RequestException", cvo_log)
          /\ UNCHANGED <<img, raw_size, http_status>>
       \/ \E status \in (IF is_url THEN {200, 404} ELSE {0}) :
             /\ http_status' = status
             /\ \/ \E sz \in RawSizes :
                      /\ raw_size' = [width |-> sz[1], height |-> sz[2]]
                      /\ img' = cvo_resize(sz[1], sz[2])
                      /\ pc' = "fonts"
                      /\ UNCHANGED <<printed, error, exit_code>>
                \/ /\ Raise("UnidentifiedImageError", cvo_log)
                   /\ UNCHANGED <<img, raw_size>>
    /\ UNCHANGED <<args_vars, font_source, text_lines, fonts, layout_vars, out_vars>>

\* the font try block and its except clause
cvo_LoadFonts ==
    /\ variant = "cvo" /\ pc = "fonts"
    /\ \E installed \in SUBSET cvo_candidates(style), tall \in BOOLEAN :
          LET r == cvo_try_fonts(style, installed, tall)
          IN IF ~r.raised
             THEN /\ fonts' = r.fonts
                  /\ font_source' = "named"
                  /\ pc' = "measure"
                  /\ UNCHANGED <<printed, error, exit_code>>
             ELSE \/ /\ fonts' = default_fonts
                     /\ font_source' = "default"
                     /\ pc' = "measure"
                     /\ printed' = Append(printed, "Could not load font, using default")
                     /\ UNCHANGED <<error, exit_code>>
                  \/ /\ Raise("OSError",
                              <<"Could not load font, using default">> \o cvo_log)
                     /\ font_source' = "default_failed"
                     /\ UNCHANGED fonts
    /\ UNCHANGED <<args_vars, text_lines, http_status, raw_size, img, layout_vars, out_vars>>

\* the height loop and the start position
cvo_Measure ==
    /\ variant = "cvo" /\ pc = "measure"
    /\ total_text_height' = cvo_total_height(text_lines)
    /\ text_y2' = cvo_start_y2(img.height, total_text_height')
    /\ start_y2' = text_y2'
    /\ pc' = "draw"
    /\ UNCHANGED <<args_vars, font_source, text_lines, http_status, raw_size, img, fonts, lines, drawn,
                   out_vars, printed, error, exit_code>>

\* mutant: the width is measured before the reference text is upper-cased
cvo_DrawLine_measure_first ==
    /\ variant = "cvo" /\ pc = "draw" /\ Len(drawn) \div 2 < Len(text_lines)
    /\ LET line == text_lines[Len(drawn) \div 2 + 1]
           font == cvo_font(fonts, line.style)
           line_height == cvo_line_height(line.style)
           text_width == textlength(line.text, font)
           text == cvo_text(line)
           text_x2 == cvo_x2(img.width, text_width)
       IN /\ drawn' = drawn \o
                <<[kind |-> "shadow", text |-> text, font |-> font,
                   x2 |-> text_x2 + 2 * shadow_offset,
                   y2 |-> text_y2 + 2 * shadow_offset, fill |-> "black"],
                  [kind |-> "text", text |-> text, font |-> font,
                   x2 |-> text_x2, y2 |-> text_y2, fill |-> "white"]>>
          /\ text_y2' = text_y2 + 2 * cvo_advance(line_height)
    /\ UNCHANGED <<args_vars, font_source, pc, text_lines, http_status, raw_size,
                   img, fonts, lines, total_text_height, start_y2, out_vars,
                   printed, error, exit_code>>

\* mutant: the shadow offset is added to text_x / text_y themselves, so the
\* foreground and the next line move with it
cvo_DrawLine_shadow_shifts ==
    /\ variant = "cvo" /\ pc = "draw" /\ Len(drawn) \div 2 < Len(text_lines)
    /\ LET line == text_lines[Len(drawn) \div 2 + 1]
           font == cvo_font(fonts, line.style)
           line_height == cvo_line_height(line.style)
           text == cvo_text(line)
           text_width == textlength(text, font)
           text_x2 == cvo_x2(img.width, text_width) + 2 * shadow_offset
           shifted_y2 == text_y2 + 2 * shadow_offset
       IN /\ drawn' = drawn \o
                <<[kind |-> "shadow", text |-> text, font |-> font,
                   x2 |-> text_x2, y2 |-> shifted_y2, fill |-> "black"],
                  [kind |-> "text", text |-> text, font |-> font,
                   x2 |-> text_x2 - 2 * shadow_offset, y2 |-> text_y2,
                   fill |-> "white"]>>
          /\ text_y2' = shifted_y2 + 2 * cvo_advance(line_height)
    /\ UNCHANGED <<args_vars, font_source, pc, text_lines, http_status, raw_size,
                   img, fonts, lines, total_text_height, start_y2, out_vars,
                   printed, error, exit_code>>

\* one turn of the drawing loop: the shadow, then the text
cvo_DrawLine ==
    /\ variant = "cvo" /\ pc = "draw" /\ Len(drawn) \div 2 < Len(text_lines)
    /\ LET line == text_lines[Len(drawn) \div 2 + 1]
           font == cvo_font(fonts, line.style)
           line_height == cvo_line_height(line.style)
           text == cvo_text(line)
           text_width == textlength(text, font)
           text_x2 == cvo_x2(img.width, text_width)
       IN /\ drawn' = drawn \o
                <<[kind |-> "shadow", text |-> text, font |-> font,
                   x2 |-> text_x2 + 2 * shadow_offset,
                   y2 |-> text_y2 + 2 * shadow_offset, fill |-> "black"],
                  [kind |-> "text", text |-> text, font |-> font,
                   x2 |-> text_x2, y2 |-> text_y2, fill |-> "white"]>>
          /\ text_y2' = text_y2 + 2 * cvo_advance(line_height)
    /\ UNCHANGED <<args_vars, font_source, pc, text_lines, http_status, raw_size, img, fonts, lines,
                   total_text_height, start_y2, out_vars, printed, error,
                   exit_code>>

\* mutant: the drawing loop runs one turn past the end of the list
cvo_DrawFail_past_end ==
    /\ variant = "cvo" /\ pc = "draw" /\ Len(drawn) \div 2 <= Len(text_lines)
    /\ Raise("Exception", cvo_log)
    /\ UNCHANGED <<args_vars, font_source, text_lines, http_status, raw_size, img, fonts,
                   layout_vars, out_vars>>

cvo_DrawFail ==
    /\ variant = "cvo" /\ pc = "draw" /\ Len(drawn) \div 2 < Len(text_lines)
    /\ Raise("Exception", cvo_log)
    /\ UNCHANGED <<args_vars, font_source, text_lines, http_status, raw_size, img, fonts, layout_vars,
                   out_vars>>

\* img.save(output_path, quality=95); return output_path
cvo_Save ==
    /\ variant = "cvo" /\ pc = "draw" /\ Len(drawn) \div 2 = Len(text_lines)
    /\ \/ /\ saved' = TRUE
          /\ printed' = Append(printed, "Image saved to")
          /\ result' = "output_path"
          /\ pc' = "done"
          /\ UNCHANGED <<error, exit_code>>
       \/ /\ Raise("OSError", cvo_log)
          /\ UNCHANGED <<saved, result>>
    /\ UNCHANGED <<args_vars, font_source, text_lines, http_status, raw_size, img, fonts, layout_vars>>

(* -------------------------- create_verse_image ------------------------- *)
cvi_log == <<"Error creating verse image">>

\* requests.get, Image.open, img.thumbnail(max_size)
cvi_OpenImage ==
    /\ variant = "cvi" /\ pc = "open"
    /\ \/ /\ Raise("RequestException", cvi_log)
          /\ UNCHANGED <<img, raw_size, http_status>>
       \/ \E status \in {200, 404} :
             /\ http_status' = status
             /\ \/ \E sz \in RawSizes :
                      /\ raw_size' = [width |-> sz[1], height |-> sz[2]]
                      /\ img' = thumbnail(sz[1], sz[2], max_size.width,
                                          max_size.height)
                      /\ pc' = "fonts"
                      /\ UNCHANGED <<printed, error, exit_code>>
                \/ /\ Raise("UnidentifiedImageError", cvi_log)
                   /\ UNCHANGED <<img, raw_size>>
    /\ UNCHANGED <<args_vars, font_source, text_lines, fonts, layout_vars, out_vars>>

\* ImageFont.truetype("Arial.ttf", 36), except IOError: load_default()
cvi_LoadFont ==
    /\ variant = "cvi" /\ pc = "fonts"
    /\ \/ \E tall \in BOOLEAN :
             /\ fonts' = [NoFonts EXCEPT !["normal"] = truetype("Arial.ttf", 36, tall)]
             /\ font_source' = "named"
             /\ pc' = "wrap"
             /\ UNCHANGED <<printed, error, exit_code>>
       \/ /\ fonts' = [NoFonts EXCEPT !["normal"] = load_default]
          /\ font_source' = "default"
          /\ pc' = "wrap"
          /\ UNCHANGED <<printed, error, exit_code>>
       \/ /\ Raise("OSError", cvi_log)
          /\ font_source' = "default_failed"
          /\ UNCHANGED fonts
    /\ UNCHANGED <<args_vars, text_lines, http_status, raw_size, img, layout_vars, out_vars>>

\* the wrap and the text position
cvi_Wrap ==
    /\ variant = "cvi" /\ pc = "wrap"
    /\ LET words == split(verse_text)
       IN IF wrap_raises(words)
          THEN /\ Raise("IndexError", cvi_log)
               /\ UNCHANGED layout_vars
          ELSE /\ lines' = wrap(words, cvi_max_width(img), fonts["normal"])
               /\ total_text_height' = Len(lines') * cvi_line_step
               /\ text_y2' = 2 * cvi_start_y(img.height, Len(lines'))
               /\ start_y2' = text_y2'
               /\ pc' = "draw"
               /\ UNCHANGED <<drawn, printed, error, exit_code>>
    /\ UNCHANGED <<args_vars, font_source, text_lines, http_status, raw_size, img, fonts, out_vars>>

\* one turn of the drawing loop
cvi_DrawLine ==
    /\ variant = "cvi" /\ pc = "draw" /\ Len(drawn) < Len(lines)
    /\ LET line == lines[Len(drawn) + 1]
           font == fonts["normal"]
           text_width == textlength(line, font)
       IN /\ drawn' = Append(drawn,
                         [kind |-> "text", text |-> line, font |-> font,
                          x2 |-> 2 * cvi_x(img.width, text_width),
                          y2 |-> text_y2, fill |-> "white"])
          /\ text_y2' = text_y2 + 2 * cvi_line_step
    /\ UNCHANGED <<args_vars, font_source, pc, text_lines, http_status, raw_size, img, fonts, lines,
                   total_text_height, start_y2, out_vars, printed, error,
                   exit_code>>

cvi_DrawFail ==
    /\ variant = "cvi" /\ pc = "draw" /\ Len(drawn) < Len(lines)
    /\ Raise("Exception", cvi_log)
    /\ UNCHANGED <<args_vars, font_source, text_lines, http_status, raw_size, img, fonts, layout_vars,
                   out_vars>>

\* alpha_composite, convert, save to the buffer, base64; return the data URI
cvi_Save ==
    /\ variant = "cvi" /\ pc = "draw" /\ Len(drawn) = Len(lines)
    /\ \/ /\ saved' = TRUE
          /\ result' = "data:image/jpeg;base64"
          /\ pc' = "done"
          /\ UNCHANGED <<printed, error, exit_code>>
       \/ /\ Raise("OSError", cvi_log)
          /\ UNCHANGED <<saved, result>>
    /\ UNCHANGED <<args_vars, font_source, text_lines, http_status, raw_size, img, fonts, layout_vars>>

(* -------------------------------- Next -------------------------------- *)
Next ==
    \/ cli_ParseGiven \/ cli_ParseError \/ cli_ParseAbsent
    \/ cli_CheckImage \/ cli_CheckFontDir \/ cli_LoadFonts \/ cli_OpenImage
    \/ cli_Measure \/ cli_DrawLine \/ cli_DrawFail \/ cli_Save
    \/ lf_LoadFonts
    \/ cvo_OpenImage \/ cvo_LoadFonts \/ cvo_Measure \/ cvo_DrawLine
    \/ cvo_DrawFail \/ cvo_Save
    \/ cvi_OpenImage \/ cvi_LoadFont \/ cvi_Wrap \/ cvi_DrawLine
    \/ cvi_DrawFail \/ cvi_Save

Spec == Init /\ [][Next]_vars

(* ------------------------ calls in flight at once ---------------------- *)
\* Two calls of create_verse_image / create_verse_overlay interleave
\* statement by statement. Every name either function assigns is a local of
\* the call, so each call works in a frame of its own; the image source and
\* the font files are only read.
CcVerseTexts == {<<" ">>, <<"a", " ", "a", " ", "A">>, <<"A", "a">>}

CcLineLists ==
    {<<>>,
     <<[text |-> <<"a">>, style |-> "reference"]>>,
     <<[text |-> <<"A", "a">>, style |-> "highlight"],
       [text |-> <<"a">>, style |-> "normal"]>>}

CcRawSizes == {<<300, 60>>, <<3000, 1000>>}

CcArgs ==
    {[kind |-> "cvi", verse_text |-> t, text_lines |-> <<>>, style |-> "elegant"] :
        t \in CcVerseTexts}
    \cup
    {[kind |-> "cvo", verse_text |-> <<>>, text_lines |-> tl, style |-> "elegant"] :
        tl \in CcLineLists}

\* mutant: the locals live in one module-level frame that every call uses
frame_of_shared(p) == 1

\* the frame holding the locals of call p
frame_of(p) == p

Frame(p) == cc_frame[frame_of(p)]

cc_log(kind) == IF kind = "cvi" THEN cvi_log ELSE cvo_log

\* an exception leaves call p: logged, re-raised to the caller
cc_Raise(p, exc) ==
    /\ cc_pc' = [cc_pc EXCEPT ![p] = "failed"]
    /\ cc_out' = [cc_out EXCEPT ![p] = [result |-> "", drawn |-> <<>>,
                                        error |-> exc]]

\* the two render functions, called while idle
cc_Call(p) ==
    /\ cc_pc[p] = "idle"
    /\ \E a \in CcArgs : cc_args' = [cc_args EXCEPT ![p] = a]
    /\ cc_pc' = [cc_pc EXCEPT ![p] = "open"]
    /\ UNCHANGED <<cc_env, cc_frame, cc_out>>

\* requests.get / Image.open and the resize
cc_Open(p) ==
    /\ cc_pc[p] = "open"
    /\ \/ /\ cc_Raise(p, "UnidentifiedImageError")
          /\ UNCHANGED <<cc_env, cc_frame>>
       \/ \E sz \in CcRawSizes :
             LET image == IF cc_args[p].kind = "cvi"
                          THEN thumbnail(sz[1], sz[2], max_size.width,
                                         max_size.height)
                          ELSE cvo_resize(sz[1], sz[2])
             IN /\ cc_env' = [cc_env EXCEPT ![p].img = image]
                /\ cc_frame' = [cc_frame EXCEPT ![frame_of(p)] =
                       [@ EXCEPT !.img = image, !.drawn = <<>>]]
                /\ cc_pc' = [cc_pc EXCEPT ![p] = "fonts"]
                /\ UNCHANGED cc_out
    /\ UNCHANGED cc_args

\* the fonts each function opens, load_default() where truetype raised
cc_Fonts(p) ==
    /\ cc_pc[p] = "fonts"
    /\ \E named \in BOOLEAN, tall \in BOOLEAN :
          LET r == cvo_try_fonts(cc_args[p].style,
                                 IF named THEN cvo_candidates(cc_args[p].style)
                                 ELSE {}, tall)
              fs == IF cc_args[p].kind = "cvi"
                    THEN [NoFonts EXCEPT !["normal"] =
                              IF named THEN truetype("Arial.ttf", 36, tall)
                              ELSE load_default]
                    ELSE IF r.raised THEN default_fonts ELSE r.fonts
          IN /\ cc_env' = [cc_env EXCEPT ![p].fonts = fs]
             /\ cc_frame' = [cc_frame EXCEPT ![frame_of(p)].fonts = fs]
    /\ cc_pc' = [cc_pc EXCEPT ![p] = "layout"]
    /\ UNCHANGED <<cc_args, cc_out>>

\* create_verse_image: the wrap and text_y; create_verse_overlay: the height
\* loop and text_y
cc_Layout(p) ==
    /\ cc_pc[p] = "layout"
    /\ IF cc_args[p].kind = "cvi"
       THEN LET words == split(cc_args[p].verse_text)
            IN IF wrap_raises(words)
               THEN /\ cc_Raise(p, "IndexError")
                    /\ UNCHANGED cc_frame
               ELSE LET ls == wrap(words, cvi_max_width(Frame(p).img),
                                   Frame(p).fonts["normal"])
                    IN /\ cc_frame' = [cc_frame EXCEPT ![frame_of(p)] =
                              [@ EXCEPT !.lines = ls,
                                        !.text_y2 = 2 * cvi_start_y(
                                            Frame(p).img.height, Len(ls))]]
                       /\ cc_pc' = [cc_pc EXCEPT ![p] = "draw"]
                       /\ UNCHANGED cc_out
       ELSE /\ cc_frame' = [cc_frame EXCEPT ![frame_of(p)] =
                   [@ EXCEPT !.text_y2 = cvo_start_y2(Frame(p).img.height,
                       cvo_total_height(cc_args[p].text_lines))]]
            /\ cc_pc' = [cc_pc EXCEPT ![p] = "draw"]
            /\ UNCHANGED cc_out
    /\ UNCHANGED <<cc_args, cc_env>>

\* the number of lines call p has to draw, and has drawn
cc_todo(p) ==
    IF cc_args[p].kind = "cvi" THEN Len(Frame(p).lines)
    ELSE Len(cc_args[p].text_lines)

cc_drawn_lines(p) ==
    IF cc_args[p].kind = "cvi" THEN Len(Frame(p).drawn)
    ELSE Len(Frame(p).drawn) \div 2

\* one turn of the drawing loop of either function
cc_Draw(p) ==
    /\ cc_pc[p] = "draw" /\ cc_drawn_lines(p) < cc_todo(p)
    /\ LET f == Frame(p)
           k == cc_drawn_lines(p) + 1
       IN IF cc_args[p].kind = "cvi"
          THEN LET line == f.lines[k]
                   font == f.fonts["normal"]
                   text_width == textlength(line, font)
               IN cc_frame' = [cc_frame EXCEPT ![frame_of(p)] =
                      [@ EXCEPT !.drawn = Append(f.drawn,
                                    [kind |-> "text", text |-> line,
                                     font |-> font,
                                     x2 |-> 2 * cvi_x(f.img.width, text_width),
                                     y2 |-> f.text_y2, fill |-> "white"]),
                                !.text_y2 = f.text_y2 + 2 * cvi_line_step]]
          ELSE LET line == cc_args[p].text_lines[k]
                   font == cvo_font(f.fonts, line.style)
                   line_height == cvo_line_height(line.style)
                   text == cvo_text(line)
                   text_width == textlength(text, font)
                   text_x2 == cvo_x2(f.img.width, text_width)
               IN cc_frame' = [cc_frame EXCEPT ![frame_of(p)] =
                      [@ EXCEPT !.drawn = f.drawn \o
                                    <<[kind |-> "shadow", text |-> text,
                                       font |-> font,
                                       x2 |-> text_x2 + 2 * shadow_offset,
                                       y2 |-> f.text_y2 + 2 * shadow_offset,
                                       fill |-> "black"],
                                      [kind |-> "text", text |-> text,
                                       font |-> font, x2 |-> text_x2,
                                       y2 |-> f.text_y2, fill |-> "white"]>>,
                                !.text_y2 = f.text_y2
                                            + 2 * cvo_advance(line_height)]]
    /\ cc_env' = [cc_env EXCEPT ![p].overlapped =
                      @ \/ \E q \in Calls \ {p} :
                               /\ cc_pc[q] = "draw"
                               /\ 0 < cc_drawn_lines(q)
                               /\ cc_drawn_lines(q) < cc_todo(q)]
    /\ UNCHANGED <<cc_pc, cc_args, cc_out>>

\* the encode / save and the return
cc_Save(p) ==
    /\ cc_pc[p] = "draw" /\ cc_drawn_lines(p) >= cc_todo(p)
    /\ \/ /\ cc_pc' = [cc_pc EXCEPT ![p] = "done"]
          /\ cc_out' = [cc_out EXCEPT ![p] =
                 [result |-> IF cc_args[p].kind = "cvi"
                             THEN "data:image/jpeg;base64" ELSE "output_path",
                  drawn |-> Frame(p).drawn, error |-> ""]]
       \/ cc_Raise(p, "OSError")
    /\ UNCHANGED <<cc_args, cc_env, cc_frame>>

InitConc ==
    /\ variant = "none" /\ pc = "idle" /\ style = "" /\ text_lines = <<>>
    /\ verse_text = <<>> /\ is_url = FALSE /\ http_status = 0
    /\ raw_size = NoImg /\ img = NoImg /\ fonts = NoFonts /\ lines = <<>>
    /\ total_text_height = 0 /\ text_y2 = 0 /\ start_y2 = 0 /\ drawn = <<>>
    /\ result = "" /\ saved = FALSE /\ printed = <<>> /\ error = ""
    /\ font_source = "none" /\ exit_code = -1
    /\ cc_pc = [p \in Calls |-> "idle"]
    /\ cc_args = [p \in Calls |-> NoArgs]
    /\ cc_env = [p \in Calls |-> NoEnv]
    /\ cc_frame = [p \in Calls |-> NoFrame]
    /\ cc_out = [p \in Calls |-> NoOut]
    /\ SessIdle
    /\ ScriptsIdle

render_vars == <<variant, pc, style, text_lines, verse_text, is_url,
                 http_status, raw_size, img, fonts, lines, total_text_height,
                 text_y2, start_y2, drawn, result, saved, printed, error,
                 font_source, exit_code>>

NextConc ==
    \/ \E p \in Calls : cc_Call(p) /\ UNCHANGED <<render_vars, sess_vars, script_vars>>
    \/ \E p \in Calls : cc_Open(p) /\ UNCHANGED <<render_vars, sess_vars, script_vars>>
    \/ \E p \in Calls : cc_Fonts(p) /\ UNCHANGED <<render_vars, sess_vars, script_vars>>
    \/ \E p \in Calls : cc_Layout(p) /\ UNCHANGED <<render_vars, sess_vars, script_vars>>
    \/ \E p \in Calls : cc_Draw(p) /\ UNCHANGED <<render_vars, sess_vars, script_vars>>
    \/ \E p \in Calls : cc_Save(p) /\ UNCHANGED <<render_vars, sess_vars, script_vars>>

SpecConc == InitConc /\ [][NextConc]_vars

(* ----------------------- backend: sheet and cache ---------------------- *)
\* The Flask backend of app.py: requests handled by worker threads, the
\* Sessions sheet behind the Sheets API, the Memory service used as a cache
\* and Taskmaster. Context7 and the Knowledge service are configured off.
MaxRequests == 2     \* requests received in one run

headers ==
    <<"id", "date", "scripture", "transcription", "plaudSynopsis",
      "prayerRequests", "keyVerse", "imageQuery", "imageUrl", "aiSummary",
      "enhancedCommentary", "nextSessionPreview", "emailStatus",
      "emailSentTimestamp", "errorLog">>

\* the columns A..Z of the ranges, by number
col_A == 1
col_I == 9
col_J == 10
col_M == 13
col_Z == 26

SessionIds == {1, 2}

\* the integer session_id as it appears in a JSON body; a sheet cell holds text
int_id(k) == IF k = 1 THEN "int 1" ELSE IF k = 2 THEN "int 2" ELSE "int 3"

\* the last sheet row that holds a session: row 1 is the header row
last_row == 1 + Cardinality(SessionIds)

\* values().get leaves out trailing empty cells of a row and trailing empty rows
RECURSIVE trim(_, _)
trim(s, blank) ==
    IF s = <<>> THEN s
    ELSE IF s[Len(s)] = blank THEN trim(SubSeq(s, 1, Len(s) - 1), blank)
    ELSE s

\* values().get(range = 'Sessions!A<first>:Z<last>').execute().get('values', [])
values_get(sh, first, last) ==
    trim([i \in 1..(last - first + 1) |->
             trim(SubSeq(sh[first + i - 1], col_A, col_Z), "")], <<>>)

\* mutant: the update goes to the row numbered like the session
values_update_row_above(sh, row, col, vals) ==
    [sh EXCEPT ![row - 1] =
        [j \in 1..col_Z |->
            IF col <= j /\ j < col + Len(vals) THEN vals[j - col + 1] ELSE @[j]]]

\* values().update(range = 'Sessions!<col><row>...', body = {'values': [vals]})
values_update(sh, row, col, vals) ==
    [sh EXCEPT ![row] =
        [j \in 1..col_Z |->
            IF col <= j /\ j < col + Len(vals) THEN vals[j - col + 1] ELSE @[j]]]

\* session = {"id": id}; for j, value in enumerate(row): if j < len(headers):
\* session[headers[j]] = value
to_session(id, row) ==
    LET n == IF Len(row) < Len(headers) THEN Len(row) ELSE Len(headers)
    IN [h \in {"id"} \cup {headers[j] : j \in 1..n} |->
           IF \E j \in 1..n : headers[j] = h
           THEN row[CHOOSE j \in 1..n : headers[j] = h]
           ELSE id]

\* get_sessions: the list built from the rows
to_sessions(values) ==
    [i \in 1..Len(values) |-> to_session(int_id(i), values[i])]

\* the sheets the backend may start on: row 1 holds the headers, rows 2 and 3
\* sessions filled up to some column, or nothing
InitSheets ==
    LET row_to(a, n) ==
            [j \in 1..col_Z |-> IF j = 1 THEN a ELSE IF j <= n THEN "x" ELSE ""]
        blank_row == [j \in 1..col_Z |-> ""]
        header_row ==
            [j \in 1..col_Z |-> IF j <= Len(headers) THEN headers[j] ELSE ""]
    IN {<<header_row, row_to("1", 8), row_to("7", 16)>>,
        <<header_row, row_to("7", 16), blank_row>>,
        <<header_row, blank_row, row_to("", 8)>>}

\* Memory service: the key f'session_{session_id}'
session_key(k) == IF k = 1 THEN "session_1" ELSE "session_2"

Keys == {"sessions"} \cup {session_key(k) : k \in SessionIds}

\* state is "value" for a stored value and "absent" for a key that was never
\* stored, has expired or holds None (retrieve gives None for each of them);
\* read_at records the write counts of the sheet when the value was read
NoEntry == [state |-> "absent", value |-> <<>>, read_at |-> <<>>]

\* retrieve(key) as the endpoints use it: the stored value when it is truthy
mem_hit(key) == "memory" \in enabled /\ memory[key].state = "value"

\* store(key, value, expires_in); the service may not be reached, and the
\* endpoints ignore the result
mem_store(key, entry, ok) ==
    IF "memory" \in enabled /\ ok THEN [memory EXCEPT ![key] = entry] ELSE memory

Threads == {1, 2}

NoReq == [endpoint |-> "none", session_id |-> 0, rid |-> 0, pc |-> "idle",
          local |-> <<>>, status |-> 0, body |-> <<>>, cached |-> FALSE,
          read_at |-> <<>>, wrote |-> 0, reported |-> FALSE,
          invalidated |-> TRUE]

Endpoints == {"get_session", "get_sessions", "generate_image",
              "generate_ai_content", "trigger_email"}

first_pc(e) ==
    IF e \in {"get_session", "get_sessions"} THEN "retrieve"
    ELSE IF e = "generate_image" THEN "render"
    ELSE IF e = "generate_ai_content" THEN "generate"
    ELSE "schedule"

InitSess ==
    /\ variant = "none" /\ pc = "idle" /\ style = "" /\ text_lines = <<>>
    /\ verse_text = <<>> /\ is_url = FALSE /\ http_status = 0
    /\ raw_size = NoImg /\ img = NoImg /\ fonts = NoFonts /\ lines = <<>>
    /\ total_text_height = 0 /\ text_y2 = 0 /\ start_y2 = 0 /\ drawn = <<>>
    /\ result = "" /\ saved = FALSE /\ printed = <<>> /\ error = ""
    /\ font_source = "none" /\ exit_code = -1
    /\ cc_pc = [p \in Calls |-> "idle"]
    /\ cc_args = [p \in Calls |-> NoArgs]
    /\ cc_env = [p \in Calls |-> NoEnv]
    /\ cc_frame = [p \in Calls |-> NoFrame]
    /\ cc_out = [p \in Calls |-> NoOut]
    /\ sheet \in InitSheets
    /\ memory = [key \in Keys |-> NoEntry]
    /\ enabled \in SUBSET {"memory", "taskmaster"}
    /\ req = [t \in Threads |-> NoReq]
    /\ started = 0
    /\ tasks = {}
    /\ ScriptsIdle
    /\ hist = [ver |-> [k \in SessionIds |-> 0],
               done_ver |-> [k \in SessionIds |-> 0],
               done_any_ver |-> [k \in SessionIds |-> 0],
               send_now |-> {}]

\* a request arrives at a free worker thread. The requests explored: a
\* sequence of requests to any endpoint on the first thread, and one reading
\* request arriving meanwhile on the second
Receive(t) ==
    /\ req[t].pc = "idle" \/ (t = 1 /\ req[t].pc = "done")
    /\ started < MaxRequests
    /\ \E e \in (IF t = 1 THEN Endpoints ELSE {"get_session", "get_sessions"}),
          k \in SessionIds :
          req' = [req EXCEPT ![t] =
                     [NoReq EXCEPT !.endpoint = e, !.pc = first_pc(e),
                                   !.rid = started + 1,
                                   !.session_id = IF e = "get_sessions" THEN 0
                                                  ELSE k]]
    /\ started' = started + 1
    /\ UNCHANGED <<sheet, memory, enabled, tasks, hist>>

\* get_session / get_sessions: the Memory lookup
get_Retrieve(t) ==
    /\ req[t].pc = "retrieve"
    /\ LET key == IF req[t].endpoint = "get_sessions" THEN "sessions"
                  ELSE session_key(req[t].session_id)
       IN \/ /\ mem_hit(key)
             /\ req' = [req EXCEPT ![t].pc = "done", ![t].status = 200,
                                   ![t].body = memory[key].value,
                                   ![t].cached = TRUE,
                                   ![t].read_at = memory[key].read_at]
          \/ req' = [req EXCEPT ![t].pc = "read"]
    /\ UNCHANGED <<sheet, memory, enabled, started, tasks, hist>>

\* get_session / get_sessions: the Sheets read and the dictionaries
get_Read(t) ==
    /\ req[t].pc = "read"
    /\ LET k == req[t].session_id
           one == req[t].endpoint = "get_session"
           values == IF one THEN values_get(sheet, k + 1, k + 1)
                     ELSE values_get(sheet, 2, last_row)
           built == IF one THEN to_session(int_id(k), values[1])
                    ELSE to_sessions(values)
       IN IF values = <<>>
          THEN req' = [req EXCEPT ![t].pc = "done",
                                  ![t].status = IF one THEN 404 ELSE 200]
          ELSE req' = [req EXCEPT
                          ![t].pc = IF "memory" \in enabled THEN "store" ELSE "done",
                          ![t].status = IF "memory" \in enabled THEN 0 ELSE 200,
                          ![t].local = built,
                          ![t].body = IF "memory" \in enabled THEN <<>> ELSE built,
                          ![t].read_at = hist.ver]
    /\ UNCHANGED <<sheet, memory, enabled, started, tasks, hist>>

\* get_session / get_sessions: store(key, value, 300) and the response
get_Store(t) ==
    /\ req[t].pc = "store"
    /\ LET key == IF req[t].endpoint = "get_sessions" THEN "sessions"
                  ELSE session_key(req[t].session_id)
       IN \E ok \in BOOLEAN :
             memory' = mem_store(key, [state |-> "value", value |-> req[t].local,
                                       read_at |-> req[t].read_at], ok)
    /\ req' = [req EXCEPT ![t].pc = "done", ![t].status = 200,
                          ![t].body = req[t].local]
    /\ UNCHANGED <<sheet, enabled, started, tasks, hist>>

\* an entry reaches its expiry time
mem_Expire(key) ==
    /\ memory[key].state # "absent"
    /\ memory' = [memory EXCEPT ![key] = NoEntry]
    /\ UNCHANGED <<sheet, enabled, req, started, tasks, hist>>

\* the history after a write to the row of session k
Wrote(k) == [hist EXCEPT !.ver[k] = @ + 1]

\* generate_image: the request body, get_pexels_image and create_verse_image
gi_Render(t) ==
    /\ req[t].pc = "render"
    /\ \/ req' = [req EXCEPT ![t].pc = "done", ![t].status = 500]
       \/ req' = [req EXCEPT ![t].pc = "update_image_url",
                             ![t].local = "data:image/jpeg;base64"]
    /\ UNCHANGED <<sheet, memory, enabled, started, tasks, hist>>

\* update_image_url(session_id, image_url)
gi_UpdateImageUrl(t) ==
    /\ req[t].pc = "update_image_url"
    /\ LET k == req[t].session_id
       IN \/ /\ req' = [req EXCEPT ![t].pc = "done", ![t].status = 500]
             /\ UNCHANGED <<sheet, hist>>
          \/ /\ sheet' = values_update(sheet, k + 1, col_I, <<req[t].local>>)
             /\ hist' = Wrote(k)
             /\ req' = [req EXCEPT ![t].pc = "invalidate",
                                   ![t].wrote = hist'.ver[k]]
    /\ UNCHANGED <<memory, enabled, started, tasks>>

\* generate_image / trigger_email: store(f'session_{session_id}', None, 1) and
\* store('sessions', None, 1) where Memory is enabled, and the response.
\* invalidated records that no store of the request was lost; done_ver the
\* last write of a request that responded after invalidating
Invalidate(t) ==
    /\ req[t].pc \in {"invalidate", "invalidate_sessions"}
    /\ LET k == req[t].session_id
           first == req[t].pc = "invalidate"
       IN \E ok \in BOOLEAN :
             /\ memory' = mem_store(IF first THEN session_key(k) ELSE "sessions",
                                    NoEntry, ok)
             /\ IF first /\ "memory" \in enabled
                THEN /\ req' = [req EXCEPT ![t].pc = "invalidate_sessions",
                                           ![t].invalidated = ok]
                     /\ UNCHANGED hist
                ELSE LET all == req[t].invalidated /\ (ok \/ "memory" \notin enabled)
                     IN /\ req' = [req EXCEPT ![t].pc = "done", ![t].status = 200,
                                              ![t].invalidated = all]
                        /\ hist' = [hist EXCEPT
                               !.done_ver[k] =
                                   IF all /\ req[t].wrote > @ THEN req[t].wrote ELSE @,
                               !.done_any_ver[k] =
                                   IF all /\ req[t].wrote > @ THEN req[t].wrote ELSE @]
    /\ UNCHANGED <<sheet, enabled, started, tasks>>

\* generate_ai_content: the request body, Taskmaster's generate_ai_content
\* (outputs with a summary and no commentary or preview) or the mock content
ga_Generate(t) ==
    /\ req[t].pc = "generate"
    /\ \/ req' = [req EXCEPT ![t].pc = "done", ![t].status = 400]
       \/ /\ "taskmaster" \in enabled
          /\ req' = [req EXCEPT ![t].pc = "update_ai_content",
                                ![t].local = <<"sum", "", "">>]
       \/ req' = [req EXCEPT ![t].pc = "update_ai_content",
                             ![t].local = <<"mock summary", "mock commentary",
                                            "mock preview">>]
    /\ UNCHANGED <<sheet, memory, enabled, started, tasks, hist>>

\* update_ai_content: the update of J:L
ga_UpdateAiContent(t) ==
    /\ req[t].pc = "update_ai_content"
    /\ LET k == req[t].session_id
           c == req[t].local
       IN \/ /\ req' = [req EXCEPT ![t].pc = "done", ![t].status = 500]
             /\ UNCHANGED <<sheet, hist>>
          \/ /\ sheet' = values_update(sheet, k + 1, col_J, c)
             /\ hist' = Wrote(k)
             /\ req' = [req EXCEPT ![t].pc = "update_status",
                                   ![t].wrote = hist'.ver[k]]
    /\ UNCHANGED <<memory, enabled, started, tasks>>

\* update_ai_content: the update of M, and generate_ai_content's response
ga_UpdateStatus(t) ==
    /\ req[t].pc = "update_status"
    /\ LET k == req[t].session_id
       IN \/ /\ req' = [req EXCEPT ![t].pc = "done", ![t].status = 500]
             /\ UNCHANGED <<sheet, hist>>
          \/ /\ sheet' = values_update(sheet, k + 1, col_M, <<"AI Complete">>)
             /\ LET h == Wrote(k)
                IN hist' = [h EXCEPT !.done_any_ver[k] = h.ver[k]]
             /\ req' = [req EXCEPT ![t].pc = "done", ![t].status = 200,
                                   ![t].wrote = hist'.ver[k]]
    /\ UNCHANGED <<memory, enabled, started, tasks>>

\* trigger_email: schedule_email_digest where Taskmaster is enabled. Taskmaster
\* creates the task or not; make_request reports success for a 200 / 201 / 204
\* answer it received, and failure for any other answer, a timeout or a
\* connection error
te_Schedule(t) ==
    /\ req[t].pc = "schedule"
    /\ IF "taskmaster" \in enabled
       THEN \E created \in BOOLEAN, success \in BOOLEAN :
               /\ success => created
               /\ tasks' = IF created THEN tasks \cup {req[t].rid} ELSE tasks
               /\ req' = [req EXCEPT ![t].pc = IF success THEN "done" ELSE "send_now",
                                     ![t].status = IF success THEN 200 ELSE 0,
                                     ![t].reported = success]
       ELSE /\ req' = [req EXCEPT ![t].pc = "send_now"]
            /\ UNCHANGED tasks
    /\ UNCHANGED <<sheet, memory, enabled, started, hist>>

\* trigger_email: the update of M to 'Send Now'
te_SendNow(t) ==
    /\ req[t].pc = "send_now"
    /\ LET k == req[t].session_id
       IN \/ /\ req' = [req EXCEPT ![t].pc = "done", ![t].status = 500]
             /\ UNCHANGED <<sheet, hist>>
          \/ /\ sheet' = values_update(sheet, k + 1, col_M, <<"Send Now">>)
             /\ LET h == Wrote(k)
                IN hist' = [h EXCEPT !.send_now = @ \cup {req[t].rid}]
             /\ req' = [req EXCEPT ![t].pc = "invalidate",
                                   ![t].wrote = hist'.ver[k]]
    /\ UNCHANGED <<memory, enabled, started, tasks>>

NextSess ==
    \/ \E t \in Threads : Receive(t) /\ UNCHANGED <<render_vars, cc_vars, script_vars>>
    \/ \E t \in Threads : get_Retrieve(t) /\ UNCHANGED <<render_vars, cc_vars, script_vars>>
    \/ \E t \in Threads : get_Read(t) /\ UNCHANGED <<render_vars, cc_vars, script_vars>>
    \/ \E t \in Threads : get_Store(t) /\ UNCHANGED <<render_vars, cc_vars, script_vars>>
    \/ \E key \in Keys : mem_Expire(key) /\ UNCHANGED <<render_vars, cc_vars, script_vars>>
    \/ \E t \in Threads : gi_Render(t) /\ UNCHANGED <<render_vars, cc_vars, script_vars>>
    \/ \E t \in Threads : gi_UpdateImageUrl(t) /\ UNCHANGED <<render_vars, cc_vars, script_vars>>
    \/ \E t \in Threads : Invalidate(t) /\ UNCHANGED <<render_vars, cc_vars, script_vars>>
    \/ \E t \in Threads : ga_Generate(t) /\ UNCHANGED <<render_vars, cc_vars, script_vars>>
    \/ \E t \in Threads : ga_UpdateAiContent(t) /\ UNCHANGED <<render_vars, cc_vars, script_vars>>
    \/ \E t \in Threads : ga_UpdateStatus(t) /\ UNCHANGED <<render_vars, cc_vars, script_vars>>
    \/ \E t \in Threads : te_Schedule(t) /\ UNCHANGED <<render_vars, cc_vars, script_vars>>
    \/ \E t \in Threads : te_SendNow(t) /\ UNCHANGED <<render_vars, cc_vars, script_vars>>

SpecSess == InitSess /\ [][NextSess]_vars

\* the same backend with its requests arriving one after the other
NextSeq ==
    \/ Receive(1) /\ UNCHANGED <<render_vars, cc_vars, script_vars>>
    \/ get_Retrieve(1) /\ UNCHANGED <<render_vars, cc_vars, script_vars>>
    \/ get_Read(1) /\ UNCHANGED <<render_vars, cc_vars, script_vars>>
    \/ get_Store(1) /\ UNCHANGED <<render_vars, cc_vars, script_vars>>
    \/ \E key \in Keys : mem_Expire(key) /\ UNCHANGED <<render_vars, cc_vars, script_vars>>
    \/ gi_Render(1) /\ UNCHANGED <<render_vars, cc_vars, script_vars>>
    \/ gi_UpdateImageUrl(1) /\ UNCHANGED <<render_vars, cc_vars, script_vars>>
    \/ Invalidate(1) /\ UNCHANGED <<render_vars, cc_vars, script_vars>>
    \/ ga_Generate(1) /\ UNCHANGED <<render_vars, cc_vars, script_vars>>
    \/ ga_UpdateAiContent(1) /\ UNCHANGED <<render_vars, cc_vars, script_vars>>
    \/ ga_UpdateStatus(1) /\ UNCHANGED <<render_vars, cc_vars, script_vars>>
    \/ te_Schedule(1) /\ UNCHANGED <<render_vars, cc_vars, script_vars>>
    \/ te_SendNow(1) /\ UNCHANGED <<render_vars, cc_vars, script_vars>>

SpecSeq == InitSess /\ [][NextSeq]_vars

(* ------------------------------- claims ------------------------------- *)
IsText(d) == d.kind = "text"
TextOps == SelectSeq(drawn, IsText)
Range(f) == {f[k] : k \in DOMAIN f}

\* the y the drawing pass moved to after the k-th drawn line
NextY2(k) == IF k < Len(TextOps) THEN TextOps[k + 1].y2 ELSE text_y2

\* the list with every unrecognised style token replaced by "normal"
Normalized(tl) ==
    [k \in 1..Len(tl) |->
        [text |-> tl[k].text,
         style |-> IF tl[k].style \in StyleKeys THEN tl[k].style ELSE "normal"]]

\* C1: every line the wrap of create_verse_image emits that holds more than
\* one word measures at most max_width = image width - 200.
C1_WrapWidthBound ==
    variant = "cvi" =>
        \A k \in 1..Len(lines) :
            Len(split(lines[k])) > 1 =>
                textlength(lines[k], fonts["normal"]) <= cvi_max_width(img)

\* a wrap that broke the text and kept two words on one line
C1_Witness ==
    /\ variant = "cvi" /\ pc = "done" /\ Len(lines) > 1
    /\ \E k \in 1..Len(lines) : Len(split(lines[k])) > 1

\* C2: in create_verse_overlay and create_verse_image the first drawn line
\* is never at a negative y and never above image_height / 10.
C2_FirstLineBelowMargin ==
    (variant \in {"cvo", "cvi"} /\ TextOps # <<>>) =>
        /\ TextOps[1].y2 >= 0
        /\ TextOps[1].y2 >= 2 * (img.height \div 10)

\* C3: every drawn line is centred on its own measured width:
\* x = (image_width - width) / 2, floored where the code divides with //.
C3_LinesCenteredIndependently ==
    \A k \in 1..Len(TextOps) :
        LET w == textlength(TextOps[k].text, TextOps[k].font)
        IN TextOps[k].x2 = IF variant = "cvo" THEN img.width - w
                           ELSE 2 * ((img.width - w) \div 2)

\* two drawn lines of different widths, each at its own x
C3_Witness ==
    /\ variant = "cli" /\ Len(TextOps) >= 2
    /\ textlength(TextOps[1].text, TextOps[1].font)
         # textlength(TextOps[2].text, TextOps[2].font)
    /\ TextOps[1].x2 # TextOps[2].x2

\* C4: no two drawn lines overlap vertically: each line starts at or below
\* the previous line's y plus the previous line's measured height.
C4_NoVerticalOverlap ==
    \A k \in 1..(Len(TextOps) - 1) :
        TextOps[k + 1].y2 >=
            TextOps[k].y2 + 2 * textbbox_height(TextOps[k].text, TextOps[k].font)

\* C5: a render call ends with a complete result or with a failure: a call
\* that returned has drawn every line and written its output, and a call
\* that failed raised (or exited 1) and returned, saved and announced nothing.
C5_CompleteOrFailed ==
    /\ (pc = "done" /\ variant # "lf") =>
          /\ error = "" /\ saved /\ img # NoImg /\ fonts["normal"] # NoFont
          /\ Len(TextOps) = IF variant = "cvi" THEN Len(lines) ELSE Len(text_lines)
          /\ variant = "cvi" => lines # <<>>
          /\ variant = "cli" => exit_code = 0
    /\ pc = "failed" =>
          /\ result = "" /\ ~saved
          /\ "Image saved to" \notin Range(printed)
          /\ IF variant = "cli" THEN exit_code = 1 ELSE error # ""
    /\ (saved \/ result # "") => pc = "done"

\* create_verse_overlay failed after it had drawn a line
C5_Witness ==
    variant = "cvo" /\ pc = "failed" /\ drawn # <<>> /\ error = "Exception"

\* C6: a theme name outside the theme table makes load_fonts, the command
\* line and create_verse_overlay fail before an image is opened.
C6_UnknownThemeFails ==
    (variant \in {"cli", "lf", "cvo"} /\ style \notin ThemeNames) =>
        (img = NoImg /\ pc # "done")

C8_EmptyLinesStillRender ==
    (variant \in {"cli", "cvo"} /\ text_lines = <<>>
        /\ pc \in {"draw", "done", "failed"}) =>
        /\ drawn = <<>>
        /\ error \notin {"Exception", "IndexError"}
        /\ pc = "done" =>
              /\ saved
              /\ variant = "cli" => exit_code = 0
              /\ variant = "cvo" => result = "output_path"

\* create_verse_overlay wrote the image of an empty list
C8_Witness ==
    /\ variant = "cvo" /\ text_lines = <<>> /\ pc = "done" /\ saved
    /\ drawn = <<>> /\ total_text_height = 0 - cvo_line_spacing

\* C9: the wrap of create_verse_image, given a text without a word, yields
\* one empty line and does not raise.
C9_EmptyTextOneEmptyLine ==
    (variant = "cvi" /\ split(verse_text) = <<>>) =>
        /\ error # "IndexError"
        /\ pc \in {"draw", "done"} => lines = << <<>> >>

\* C10: a line whose style token is none of normal, highlight, reference is
\* measured and drawn as a normal line: the normal font, the normal colour,
\* the normal height in the block height and in the advance of y.
C10_UnknownStyleIsNormal ==
    (variant \in {"cli", "cvo"} /\ pc \in {"draw", "done"}) =>
        /\ total_text_height =
              IF variant = "cli" THEN dtl_total_height(Normalized(text_lines), fonts)
              ELSE cvo_total_height(Normalized(text_lines))
        /\ \A k \in 1..Len(TextOps) :
              text_lines[k].style \notin StyleKeys =>
                 /\ TextOps[k].font = fonts["normal"]
                 /\ TextOps[k].fill = "white"
                 /\ TextOps[k].text = text_lines[k].text
                 /\ NextY2(k) - TextOps[k].y2 =
                       IF variant = "cli"
                       THEN 2 * (textbbox_height(text_lines[k].text, fonts["normal"])
                                 + dtl_line_spacing)
                       ELSE 2 * (50 + cvo_line_spacing)

\* the command line drew a line styled "title" and saved the image
C10_Witness ==
    /\ variant = "cli" /\ pc = "done" /\ Len(TextOps) >= 1
    /\ text_lines[1].style = "title"
    /\ fonts["normal"] # fonts["reference"]

\* C11: a response with a status other than 200 makes create_verse_overlay
\* and create_verse_image fail with a fetch error, its body never reaching
\* the image decoder.
C11_Non200NeverDecoded ==
    (variant \in {"cvo", "cvi"} /\ http_status \notin {0, 200}) =>
        (pc = "failed" /\ error = "RequestException" /\ img = NoImg)

\* C12: after loading, create_verse_overlay and create_verse_image hold an
\* image inside the 1200 x 800 box, and an image that fitted the box has the
\* size it was opened with.
C12_InsideBoxNeverUpsampled ==
    (variant \in {"cvo", "cvi"} /\ img # NoImg) =>
        /\ img.width <= 1200 /\ img.height <= 800
        /\ img.width <= raw_size.width /\ img.height <= raw_size.height
        /\ (raw_size.width <= 1200 /\ raw_size.height <= 800) => img = raw_size

\* create_verse_overlay shrank an image that was only too high
C12_Witness ==
    /\ variant = "cvo" /\ raw_size.width <= 1200 /\ raw_size.height > 800
    /\ img.height = 800 /\ img.width < raw_size.width /\ img.width > 0

\* C13: a reference line of create_verse_overlay is upper-cased before it is
\* measured: the shadow and the text draw the upper-cased string, centred
\* on the width of that same string.
C13_UpperBeforeMeasure ==
    variant = "cvo" =>
        \A k \in 1..(Len(drawn) \div 2) :
            text_lines[k].style = "reference" =>
                LET u == upper(text_lines[k].text)
                    w == textlength(u, fonts["reference"])
                IN /\ drawn[2 * k - 1].kind = "shadow"
                   /\ drawn[2 * k - 1].text = u
                   /\ drawn[2 * k].kind = "text"
                   /\ drawn[2 * k].text = u
                   /\ drawn[2 * k].x2 = img.width - w
                   /\ drawn[2 * k - 1].x2 = img.width - w + 2 * shadow_offset

\* a drawn reference line whose upper-cased text is wider than the original
C13_Witness ==
    /\ variant = "cvo" /\ Len(drawn) >= 2
    /\ text_lines[1].style = "reference"
    /\ drawn[2].text # text_lines[1].text
    /\ textlength(drawn[2].text, drawn[2].font)
         # textlength(text_lines[1].text, drawn[2].font)

CliErrors ==
    {"Error: Input image not found!", "Error: Font directory not found!",
     "Error loading fonts", "Error opening image", "Error saving image"}

\* C14: the command line exits with 0 only after the image was written, and
\* every exit it takes on a missing image, a missing font directory, a font
\* or image that does not load, or a failed save has code 1 and follows its
\* message.
C14_ExitCodes ==
    variant = "cli" =>
        /\ exit_code = 0 => (saved /\ pc = "done")
        /\ pc = "done" => exit_code = 0
        /\ pc \notin {"done", "failed"} => exit_code = -1
        /\ pc = "failed" =>
              /\ exit_code = 1
              /\ error = "" =>
                    (printed # <<>> /\ printed[Len(printed)] \in CliErrors)

\* the command line drew every line and then failed to save
C14_Witness ==
    /\ variant = "cli" /\ pc = "failed" /\ exit_code = 1
    /\ text_lines # <<>> /\ Len(TextOps) = Len(text_lines)
    /\ printed[Len(printed)] = "Error saving image"

\* C15: when --text-lines cannot be read or parsed the command line goes on
\* with the built-in default lines; the parse error alone neither ends the
\* run nor decides the exit code.
C15_ParseErrorUsesDefault ==
    (variant = "cli" /\ "Error parsing text lines" \in Range(printed)) =>
        /\ text_lines = default_text_lines
        /\ Len(printed) >= 2
        /\ printed[2] = "Using default text lines instead."
        /\ pc # "args"
        /\ exit_code = 0 <=> saved
        /\ exit_code = 1 => (error # "" \/ printed[Len(printed)] \in CliErrors)
        /\ pc = "done" => Len(TextOps) = Len(default_text_lines)

\* after a parse error the default lines were drawn and saved
C15_Witness ==
    /\ variant = "cli" /\ pc = "done" /\ exit_code = 0 /\ saved
    /\ printed[1] = "Error parsing text lines"
    /\ Len(TextOps) = 5

RECURSIVE Flatten(_)
Flatten(ss) == IF ss = <<>> THEN <<>> ELSE Head(ss) \o Flatten(Tail(ss))

\* C17: the wrap of create_verse_image is greedy: every line followed by
\* another would exceed max_width with the next line's first word appended.
C17_WrapGreedy ==
    variant = "cvi" =>
        \A k \in 1..(Len(lines) - 1) :
            textlength(lines[k] \o <<" ">> \o split(lines[k + 1])[1],
                       fonts["normal"]) > cvi_max_width(img)

\* a wrap into several lines, one of them holding more than a word
C17_Witness ==
    /\ variant = "cvi" /\ Len(lines) >= 2 /\ pc = "draw"
    /\ Len(split(lines[1])) >= 2

\* C18: the wrap keeps the text: the lines joined by single spaces are the
\* words of the input joined by single spaces, each word once and in order.
C18_WrapPreservesWords ==
    (variant = "cvi" /\ lines # <<>>) =>
        /\ join(lines) = join(split(verse_text))
        /\ Flatten([k \in 1..Len(lines) |-> split(lines[k])]) = split(verse_text)
        /\ \A k \in 1..Len(lines) : lines[k] = join(split(lines[k]))

\* a wrapped text that had more white space than one space between words
C18_Witness ==
    /\ variant = "cvi" /\ Len(lines) >= 2
    /\ verse_text # join(split(verse_text))
    /\ Len(split(verse_text)) >= 2

\* the height of line k as the measuring pass of the variant takes it
MeasuredLineHeight(k) ==
    IF variant = "cli"
    THEN textbbox_height(text_lines[k].text,
                         IF text_lines[k].style \in StyleKeys
                         THEN fonts[text_lines[k].style] ELSE fonts["normal"])
    ELSE IF text_lines[k].style = "highlight" THEN 90
    ELSE IF text_lines[k].style = "reference" THEN 40
    ELSE 50

ClaimedBlockHeight ==
    SumSeq([k \in 1..Len(text_lines) |-> MeasuredLineHeight(k)])
    + (IF variant = "cli" THEN 10 ELSE 20) * (Len(text_lines) - 1)

\* C19 as claimed: for every list, the empty one included, the block height
\* of draw_text_lines and create_verse_overlay is the sum of the line
\* heights plus line_spacing x (count - 1).
C19_BlockHeightEveryList ==
    (variant \in {"cli", "cvo"} /\ pc \in {"draw", "done"}) =>
        total_text_height = ClaimedBlockHeight

\* C19 as amended: the formula holds for every non-empty list; for the empty
\* list draw_text_lines computes 0 and create_verse_overlay computes -20.
C19_BlockHeightNonEmpty ==
    (variant \in {"cli", "cvo"} /\ pc \in {"draw", "done"}) =>
        IF text_lines # <<>> THEN total_text_height = ClaimedBlockHeight
        ELSE total_text_height = IF variant = "cli" THEN 0 ELSE 0 - 20

\* draw_text_lines measured two lines of different heights
C19_Witness ==
    /\ variant = "cli" /\ pc = "draw" /\ Len(text_lines) >= 2
    /\ MeasuredLineHeight(1) # MeasuredLineHeight(2)
    /\ total_text_height = MeasuredLineHeight(1) + MeasuredLineHeight(2) + 10

\* C20: the drawing pass ends where the measuring pass said: the bottom of
\* the last drawn line is the starting y plus the block height.
C20_PassesAgree ==
    (variant \in {"cli", "cvo"} /\ text_lines # <<>>
        /\ Len(TextOps) = Len(text_lines)) =>
        TextOps[Len(TextOps)].y2 + 2 * MeasuredLineHeight(Len(text_lines))
            = start_y2 + 2 * total_text_height

\* draw_text_lines drew a block of several lines
C20_Witness ==
    /\ variant = "cli" /\ Len(text_lines) >= 2 /\ Len(TextOps) = Len(text_lines)
    /\ TextOps[Len(TextOps)].y2 > start_y2


\* what a call with arguments a draws when it runs with nothing else in flight
\* and the image source and font files give it e
AloneDrawn(a, e) ==
    IF a.kind = "cvi"
    THEN LET font == e.fonts["normal"]
             ls == wrap(split(a.verse_text), cvi_max_width(e.img), font)
         IN [k \in 1..Len(ls) |->
                [kind |-> "text", text |-> ls[k], font |-> font,
                 x2 |-> 2 * cvi_x(e.img.width, textlength(ls[k], font)),
                 y2 |-> 2 * cvi_start_y(e.img.height, Len(ls))
                        + 2 * cvi_line_step * (k - 1),
                 fill |-> "white"]]
    ELSE LET tl == a.text_lines
             top2 == cvo_start_y2(e.img.height, cvo_total_height(tl))
             above(k) == SumSeq([i \in 1..(k - 1) |->
                                    cvo_advance(cvo_line_height(tl[i].style))])
         IN [j \in 1..(2 * Len(tl)) |->
                LET k == (j + 1) \div 2
                    font == cvo_font(e.fonts, tl[k].style)
                    text == cvo_text(tl[k])
                    off == IF j % 2 = 1 THEN 2 * shadow_offset ELSE 0
                IN [kind |-> IF j % 2 = 1 THEN "shadow" ELSE "text",
                    text |-> text, font |-> font,
                    x2 |-> cvo_x2(e.img.width, textlength(text, font)) + off,
                    y2 |-> top2 + 2 * above(k) + off,
                    fill |-> IF j % 2 = 1 THEN "black" ELSE "white"]]

AloneResult(a) ==
    IF a.kind = "cvi" THEN "data:image/jpeg;base64" ELSE "output_path"

C21_StartClamped ==
    (variant = "cli" /\ TextOps # <<>>) =>
        /\ TextOps[1].y2 =
              2 * Max((img.height - total_text_height) \div 2, img.height \div 10)
        /\ TextOps[1].y2 >= 2 * (img.height \div 10)

\* a drawn block too tall to be centred below the margin: the clamp decided
C21_Witness ==
    /\ variant = "cli" /\ TextOps # <<>>
    /\ (img.height - total_text_height) \div 2 < img.height \div 10
    /\ TextOps[1].y2 = 2 * (img.height \div 10)


\* C22: in create_verse_overlay every line is drawn as a shadow and then a
\* foreground of the same text and font; the shadow sits at the line's
\* position plus (2, 2); the foreground sits at the centred x and at the y
\* reached by advancing from the start position by line height plus spacing
\* only, so the shadow offset enters neither the foreground position nor the
\* advance.
C22_ShadowLeavesLayout ==
    variant = "cvo" =>
        /\ Len(drawn) % 2 = 0
        /\ \A k \in 1..(Len(drawn) \div 2) :
              LET sh == drawn[2 * k - 1]
                  fg == drawn[2 * k]
                  line == text_lines[k]
                  above == SumSeq([i \in 1..(k - 1) |->
                              cvo_line_height(text_lines[i].style)
                              + cvo_line_spacing])
              IN /\ sh.kind = "shadow" /\ fg.kind = "text"
                 /\ sh.text = fg.text /\ sh.font = fg.font
                 /\ sh.x2 = fg.x2 + 4 /\ sh.y2 = fg.y2 + 4
                 /\ fg.x2 = img.width - textlength(fg.text, fg.font)
                 /\ fg.y2 = start_y2 + 2 * above
        /\ (pc = "draw" /\ drawn # <<>>) =>
              text_y2 = drawn[Len(drawn)].y2
                        + 2 * (cvo_line_height(text_lines[Len(drawn) \div 2].style)
                               + cvo_line_spacing)

\* two lines drawn by create_verse_overlay, each with its shadow
C22_Witness ==
    /\ variant = "cvo" /\ Len(drawn) = 4
    /\ drawn[3].kind = "shadow" /\ drawn[4].y2 > drawn[2].y2


\* C23: once a writing request (generate_image, or trigger_email's sheet
\* fallback) for session k has completed, Memory holds no snapshot of session
\* k, under 'session_<k>' or inside 'sessions', that was read from the sheet
\* before that write.
C23_NoSnapshotFromBeforeWrite ==
    \A k \in SessionIds : \A key \in {session_key(k), "sessions"} :
        memory[key].state = "value" =>
            memory[key].read_at[k] >= hist.done_ver[k]

\* C24: with requests arriving one after the other, after any endpoint that
\* wrote the row of session k has responded, Memory holds no older snapshot
\* of session k for a later get_session(k) or get_sessions to return.
C24_WritersInvalidate ==
    \A k \in SessionIds : \A key \in {session_key(k), "sessions"} :
        memory[key].state = "value" =>
            memory[key].read_at[k] >= hist.done_any_ver[k]

\* what an uncached get_session(k) builds from the sheet as it is
ReadNow(k) == to_session(int_id(k), values_get(sheet, k + 1, k + 1)[1])

\* C25: writes and reads address the same cells. After update_image_url(k, v)
\* an uncached get_session(k) gives imageUrl = v; after update_ai_content(k,
\* s, c, p) it gives aiSummary = s, enhancedCommentary = c,
\* nextSessionPreview = p and emailStatus = 'AI Complete'; and element k - 1
\* of get_sessions is the session get_session(k) builds.
C25_SameCells ==
    /\ \A t \in Threads :
          LET r == req[t]
              k == r.session_id
          IN /\ (/\ r.endpoint = "generate_image"
                 /\ \/ r.pc \in {"invalidate", "invalidate_sessions"}
                    \/ r.pc = "done" /\ r.status = 200) =>
                    /\ values_get(sheet, k + 1, k + 1) # <<>>
                    /\ "imageUrl" \in DOMAIN ReadNow(k)
                    /\ ReadNow(k)["imageUrl"] = r.local
             /\ (r.endpoint = "generate_ai_content" /\ r.pc = "done"
                 /\ r.status = 200) =>
                    /\ values_get(sheet, k + 1, k + 1) # <<>>
                    /\ {"aiSummary", "enhancedCommentary", "nextSessionPreview",
                        "emailStatus"} \subseteq DOMAIN ReadNow(k)
                    /\ ReadNow(k)["aiSummary"] = r.local[1]
                    /\ ReadNow(k)["enhancedCommentary"] = r.local[2]
                    /\ ReadNow(k)["nextSessionPreview"] = r.local[3]
                    /\ ReadNow(k)["emailStatus"] = "AI Complete"
    /\ \A k \in SessionIds :
          values_get(sheet, k + 1, k + 1) # <<>> =>
              LET all == values_get(sheet, 2, last_row)
              IN Len(all) >= k /\ to_sessions(all)[k] = ReadNow(k)

\* update_ai_content completed on a row whose cells J..M were empty, with an
\* empty commentary and preview, after an image was written to another row
C25_Witness ==
    /\ req[1].endpoint = "generate_ai_content" /\ req[1].pc = "done"
    /\ req[1].status = 200 /\ req[1].local[2] = ""
    /\ \E k \in SessionIds \ {req[1].session_id} :
          /\ values_get(sheet, k + 1, k + 1) # <<>>
          /\ "imageUrl" \in DOMAIN ReadNow(k)
          /\ ReadNow(k)["imageUrl"] = "data:image/jpeg;base64"

\* C26: an uncached get_session(k) returns a session whose id is k, and the
\* i-th element (0-based) of an uncached get_sessions result has id i + 1,
\* whatever the cells hold.
C26_IdIsPosition ==
    \A t \in Threads :
        LET r == req[t]
        IN (r.pc = "done" /\ r.status = 200 /\ ~r.cached) =>
              /\ r.endpoint = "get_session" => r.body["id"] = int_id(r.session_id)
              /\ r.endpoint = "get_sessions" =>
                    \A i \in 1..Len(r.body) : r.body[i]["id"] = int_id(i)

\* C27: a trigger_email request that returned success used one mechanism:
\* 'Send Now' was written only if Taskmaster is disabled or
\* schedule_email_digest reported failure, and no digest task that Taskmaster
\* created for the request goes with a 'Send Now' write of the same request.
C27_OneTriggerMechanism ==
    \A t \in Threads :
        LET r == req[t]
        IN (r.endpoint = "trigger_email" /\ r.pc = "done" /\ r.status = 200) =>
              /\ r.rid \in hist.send_now =>
                    ("taskmaster" \notin enabled \/ ~r.reported)
              /\ ~(r.rid \in tasks /\ r.rid \in hist.send_now)

\* no render call is running: the state the other programs leave the render
\* variables in
RenderIdle ==
    /\ variant = "none" /\ pc = "idle" /\ style = "" /\ text_lines = <<>>
    /\ verse_text = <<>> /\ is_url = FALSE /\ http_status = 0
    /\ raw_size = NoImg /\ img = NoImg /\ fonts = NoFonts /\ lines = <<>>
    /\ total_text_height = 0 /\ text_y2 = 0 /\ start_y2 = 0 /\ drawn = <<>>
    /\ result = "" /\ saved = FALSE /\ printed = <<>> /\ error = ""
    /\ font_source = "none" /\ exit_code = -1
    /\ cc_pc = [p \in Calls |-> "idle"]
    /\ cc_args = [p \in Calls |-> NoArgs]
    /\ cc_env = [p \in Calls |-> NoEnv]
    /\ cc_frame = [p \in Calls |-> NoFrame]
    /\ cc_out = [p \in Calls |-> NoOut]

\* ---------------------------------------------------------------------------
\* The newsletter script (services/google-docs/generate_newsletter.py): one
\* run of main, with the Sheets, Docs and Drive services as the environment.
\* A document's content is a sequence of parts ("old", "image", "newsletter");
\* the end index of its body is the number of parts plus two, so an empty
\* document has end index 2.
\* ---------------------------------------------------------------------------

\* the most data rows a 'Bible Studies' sheet holds
MaxRows == 2

existing_tab_id == "existing_tab"

\* str.upper() on the values a 'Ready?' cell holds
str_upper(s) ==
    CASE s \in {"READY", "Ready", "ready"} -> "READY"
      [] s = "Draft" -> "DRAFT"
      [] OTHER -> s

\* what values().get answers for 'Bible Studies!A1:Z': nothing at all, or the
\* header row and up to MaxRows rows of <<Ready?, Picture>>, trailing empty
\* cells and trailing blank rows trimmed
NlSheets ==
    LET header_row == <<"Ready?", "Picture">>
        rows == {<<>>, <<"READY">>, <<"ready", "img">>, <<"Draft", "img">>,
                 <<"", "http">>}
        body == UNION {[1..n -> rows] : n \in 0..MaxRows}
    IN  {<<>>} \cup {<<header_row>> \o b :
                        b \in {c \in body : Len(c) > 0 => c[Len(c)] # <<>>}}

\* get_sheet_data: None for no values, else one dictionary per row after the
\* first, short rows padded with ''
get_sheet_data(values) ==
    IF values = <<>> THEN [none |-> TRUE, rows |-> <<>>]
    ELSE [none |-> FALSE,
          rows |-> [i \in 1..(Len(values) - 1) |->
                      LET row == values[i + 1]
                          padded_row == row \o [j \in 1..(2 - Len(row)) |-> ""]
                      IN  [ready |-> padded_row[1], picture |-> padded_row[2]]]]

\* the checks main and generate_newsletter make on the data they read:
\* "stop" (print and leave), "IndexError" (data[row_index] raises), or "go"
\* with the row that data[row_index] is
row_check(data, row_index) ==
    IF data.none \/ data.rows = <<>> \/ row_index >= Len(data.rows)
    THEN [to |-> "stop", row_data |-> <<>>]
    ELSE IF row_index < 0 - Len(data.rows)
    THEN [to |-> "IndexError", row_data |-> <<>>]
    ELSE LET row_data == IF row_index >= 0 THEN data.rows[row_index + 1]
                         ELSE data.rows[Len(data.rows) + row_index + 1]
         IN  IF str_upper(row_data.ready) # "READY"
             THEN [to |-> "stop", row_data |-> <<>>]
             ELSE [to |-> "go", row_data |-> row_data]

\* a Docs or Drive write request, with the row index and the data the
\* function that issued it was working on
doc_write(op, doc_id) ==
    [op |-> op, doc |-> doc_id, row_index |-> nl.row_index, data |-> nl.data]

\* the clearing step of update_existing_tab and of format_document: a
\* deleteContentRange of 1..end_index - 1, its failure swallowed; the Docs
\* API rejects the empty range of an empty document
clear_document(ds, ws, doc_id, clear_ok) ==
    LET end_index == Len(ds[doc_id]) + 2
    IN  IF end_index > 1
        THEN [docs |-> IF clear_ok /\ end_index - 1 > 1
                       THEN [ds EXCEPT ![doc_id] = <<>>] ELSE ds,
              writes |-> Append(ws, doc_write("deleteContentRange", doc_id))]
        ELSE [docs |-> ds, writes |-> ws]

\* format_document: get, clear, get again, one batchUpdate that inserts the
\* newsletter at index 1; fail_at says which request raises: "get",
\* "get_again", "batchUpdate", or "none" of them
format_document(ds, ws, doc_id, fail_at, clear_ok) ==
    LET c == clear_document(ds, ws, doc_id, clear_ok)
        w == Append(c.writes, doc_write("format", doc_id))
    IN  CASE fail_at = "get" -> [docs |-> ds, writes |-> ws, raised |-> TRUE]
          [] fail_at = "get_again" ->
                [docs |-> c.docs, writes |-> c.writes, raised |-> TRUE]
          [] fail_at = "batchUpdate" ->
                [docs |-> c.docs, writes |-> w, raised |-> TRUE]
          [] OTHER ->
                [docs |-> [c.docs EXCEPT ![doc_id] = <<"newsletter">> \o @],
                 writes |-> w, raised |-> FALSE]

\* create_or_use_tab_in_document for the row's title; o says which of its
\* requests succeed.  doc_id is "None" when the target document is not found
\* and "raised" when creating the tab document raises.
create_or_use_tab_in_document(ds, ws, tabs, o) ==
    LET same == [doc_id |-> "None", docs |-> ds, writes |-> ws, tabs |-> tabs]
        w1 == Append(ws, doc_write("create", "new_doc"))
        w2 == Append(w1, doc_write("permissions", "new_doc"))
        w3 == IF o.props_again_ok
              THEN Append(w2, doc_write("properties", "target_doc_id")) ELSE w2
    IN  IF ~o.target_ok THEN same
        ELSE IF o.props_ok /\ tabs # {} /\ o.tab_ok
        THEN [same EXCEPT !.doc_id = CHOOSE d \in tabs : TRUE]
        ELSE IF ~o.create_ok THEN [same EXCEPT !.doc_id = "raised", !.writes = w1]
        ELSE [doc_id |-> "new_doc", docs |-> ds @@ ("new_doc" :> <<>>),
              writes |-> w3,
              tabs |-> IF o.props_again_ok /\ o.update_ok
                       THEN {"new_doc"} ELSE tabs]

\* the state main starts in
InitDoc ==
    /\ RenderIdle /\ SessIdle
    /\ \E values \in NlSheets, row_index \in (0 - MaxRows - 1)..MaxRows, env_set \in BOOLEAN,
          old \in {<<>>, <<"old">>}, tabs \in {{}, {existing_tab_id}} :
          /\ nl = [pc |-> "main", env_set |-> env_set, row_index |-> row_index,
                   values |-> values, data |-> <<>>, row_data |-> <<>>,
                   updated |-> "unset", doc_id |-> "None", tabs |-> tabs,
                   before |-> old]
          /\ docs = (existing_tab_id :> old)
    /\ doc_writes = <<>>
    /\ fi = <<>> /\ disk = <<>>

\* main, lines 546-570: the environment variable, the argument, the sheet
main_Read ==
    /\ nl.pc = "main"
    /\ \E sheets_ok \in BOOLEAN :
          LET data == get_sheet_data(nl.values)
              c == row_check(data, nl.row_index)
          IN  IF ~nl.env_set THEN nl' = [nl EXCEPT !.pc = "exit 1"]
              ELSE IF ~sheets_ok THEN nl' = [nl EXCEPT !.pc = "raised"]
              ELSE nl' = [nl EXCEPT !.data = data, !.row_data = c.row_data,
                                    !.pc = CASE c.to = "stop" -> "exit 1"
                                             [] c.to = "IndexError" -> "raised"
                                             [] OTHER -> "update_existing_tab"]
    /\ UNCHANGED <<docs, doc_writes>>

\* update_existing_tab(existing_tab_id, row_data), called by main at line 578;
\* every exception outside the clearing step ends it with False
update_existing_tab ==
    /\ nl.pc = "update_existing_tab"
    /\ \E get_ok, clear_ok, clear_again_ok \in BOOLEAN, fail_at \in {"none", "get", "get_again", "batchUpdate"} :
          IF ~get_ok
          THEN /\ nl' = [nl EXCEPT !.updated = "False", !.pc = "generate_newsletter"]
               /\ UNCHANGED <<docs, doc_writes>>
          ELSE LET c == clear_document(docs, doc_writes, existing_tab_id, clear_ok)
                   f == format_document(c.docs, c.writes, existing_tab_id,
                                        fail_at, clear_again_ok)
               IN  /\ docs' = f.docs
                   /\ doc_writes' = f.writes
                   /\ nl' = IF f.raised
                            THEN [nl EXCEPT !.updated = "False",
                                            !.pc = "generate_newsletter"]
                            ELSE [nl EXCEPT !.updated = "True", !.pc = "done"]

\* generate_newsletter, lines 457-469: the sheet is read again, as it is then
generate_newsletter_Read ==
    /\ nl.pc = "generate_newsletter"
    /\ \E values \in NlSheets, sheets_ok \in BOOLEAN :
          LET data == get_sheet_data(values)
              c == row_check(data, nl.row_index)
          IN  IF ~sheets_ok THEN nl' = [nl EXCEPT !.pc = "raised"]
              ELSE nl' = [nl EXCEPT !.values = values, !.data = data,
                                    !.row_data = c.row_data,
                                    !.pc = CASE c.to = "stop" -> "returned"
                                             [] c.to = "IndexError" -> "raised"
                                             [] OTHER -> "make_document"]
    /\ UNCHANGED <<docs, doc_writes>>

\* generate_newsletter, lines 475-483: the tab of the target document, or a
\* standalone document when there is no target document to be found
generate_newsletter_Document ==
    /\ nl.pc = "make_document"
    /\ \E o \in [{"target_ok", "props_ok", "tab_ok", "create_ok",
                  "props_again_ok", "update_ok"} -> BOOLEAN],
          standalone_ok \in BOOLEAN :
          LET t == create_or_use_tab_in_document(docs, doc_writes, nl.tabs, o)
              w == Append(t.writes, doc_write("create", "new_doc"))
          IN  IF t.doc_id = "None"
              THEN /\ doc_writes' = w
                   /\ docs' = IF standalone_ok
                              THEN docs @@ ("new_doc" :> <<>>) ELSE docs
                   /\ nl' = IF standalone_ok
                            THEN [nl EXCEPT !.doc_id = "new_doc", !.pc = "fill"]
                            ELSE [nl EXCEPT !.pc = "raised"]
              ELSE /\ doc_writes' = t.writes
                   /\ docs' = t.docs
                   /\ nl' = IF t.doc_id = "raised"
                            THEN [nl EXCEPT !.pc = "raised"]
                            ELSE [nl EXCEPT !.doc_id = t.doc_id,
                                            !.tabs = t.tabs, !.pc = "fill"]

\* generate_newsletter, lines 486-498: the image, its errors swallowed, then
\* format_document, its errors not caught
generate_newsletter_Fill ==
    /\ nl.pc = "fill"
    /\ \E image_get_ok, image_ok, clear_ok \in BOOLEAN, fail_at \in {"none", "get", "get_again", "batchUpdate"} :
          LET image_id == nl.row_data.picture
              insert == image_id # "" /\ image_id # "http" /\ image_get_ok
              ds == IF insert /\ image_ok
                    THEN [docs EXCEPT ![nl.doc_id] = @ \o <<"image">>] ELSE docs
              ws == IF insert
                    THEN Append(doc_writes, doc_write("insertInlineImage", nl.doc_id))
                    ELSE doc_writes
              f == format_document(ds, ws, nl.doc_id, fail_at, clear_ok)
          IN  /\ docs' = f.docs
              /\ doc_writes' = f.writes
              /\ nl' = [nl EXCEPT !.pc = IF f.raised THEN "raised" ELSE "done"]

NextDoc ==
    \/ main_Read /\ UNCHANGED <<render_vars, cc_vars, sess_vars, fi, disk>>
    \/ update_existing_tab /\ UNCHANGED <<render_vars, cc_vars, sess_vars, fi, disk>>
    \/ generate_newsletter_Read /\ UNCHANGED <<render_vars, cc_vars, sess_vars, fi, disk>>
    \/ generate_newsletter_Document
          /\ UNCHANGED <<render_vars, cc_vars, sess_vars, fi, disk>>
    \/ generate_newsletter_Fill /\ UNCHANGED <<render_vars, cc_vars, sess_vars, fi, disk>>

SpecDoc == InitDoc /\ [][NextDoc]_vars

\* C28: when update_existing_tab has returned False, the existing tab
\* document holds what it held before the call: the failed attempt neither
\* cleared nor rewrote it.
C28_FailedUpdateLeavesTab ==
    nl # <<>> /\ nl.updated = "False" => docs[existing_tab_id] = nl.before

\* C29: every Docs or Drive write request was issued for a row index that is
\* a row of the sheet data read (0 <= row_index < number of rows) and whose
\* 'Ready?' value is READY ignoring case.
C29_WritesOnlyForReadyRow ==
    \A i \in 1..Len(doc_writes) :
        LET w == doc_writes[i]
        IN  /\ ~w.data.none
            /\ w.row_index \in 0..(Len(w.data.rows) - 1)
            /\ str_upper(w.data.rows[w.row_index + 1].ready) = "READY"

\* ---------------------------------------------------------------------------
\* fetch_images (fetch_unsplash_image.py): one call, with the Unsplash API and
\* the output directory as the environment.  disk is the sequence of files
\* the call has opened for writing, in the order it opened them.
\* ---------------------------------------------------------------------------

\* the most results the search answers with, and the largest num_images
MaxResults == 3
MaxImages == 2

\* "keyword in combined_text_to_check" for the texts the candidates carry
contains_skip_keyword(text) == text \in {"a sign", "swords"}

\* the results a search answers with: id, the text that is checked for the
\* skip keywords, and urls.regular ("" when it is missing)
FetchResults ==
    LET candidates == {[id |-> "a", text |-> "sunrise", url |-> "u1"],
                       [id |-> "b", text |-> "a sign", url |-> "u2"],
                       [id |-> "c", text |-> "", url |-> ""],
                       [id |-> "d", text |-> "", url |-> "u4"]}
    IN  UNION {[1..n -> candidates] : n \in 0..MaxResults}

InitFetch ==
    /\ RenderIdle /\ SessIdle
    /\ nl = <<>> /\ docs = <<>> /\ doc_writes = <<>>
    /\ \E results \in FetchResults, num_images \in 0..MaxImages :
          fi = [pc |-> "search", num_images |-> num_images, results |-> results,
                i |-> 1, count |-> 0, downloaded_paths |-> <<>>,
                returned |-> <<>>]
    /\ disk = <<>>

\* lines 28-32 and 84-86: the search request; an error status or a
\* connection error is a RequestException, caught at line 88
fetch_Search ==
    /\ fi.pc = "search"
    /\ \E search_ok \in BOOLEAN :
          fi' = IF search_ok /\ fi.results # <<>>
                THEN [fi EXCEPT !.pc = "loop"]
                ELSE [fi EXCEPT !.pc = "returned", !.returned = <<>>]
    /\ UNCHANGED disk

\* lines 34-79: one turn of the loop for a candidate that is reached while
\* count < num_images.  download says how the candidate's download goes:
\* "ok", "status" (raise_for_status raises), "open" (the file cannot be
\* opened), "stream" (the connection breaks after the file was opened);
\* each exception is caught at line 88 or 96, which return []
fetch_Candidate ==
    /\ fi.pc = "loop" /\ fi.i <= Len(fi.results) /\ fi.count < fi.num_images
    /\ \E download \in {"ok", "status", "open", "stream"} :
          LET img_data == fi.results[fi.i]
              output_path == <<"unsplash_image", img_data.id, fi.count + 1>>
          IN  IF contains_skip_keyword(img_data.text) \/ img_data.url = ""
              THEN /\ fi' = [fi EXCEPT !.i = @ + 1]
                   /\ UNCHANGED disk
              ELSE CASE download = "ok" ->
                          /\ disk' = Append(disk, [path |-> output_path, whole |-> TRUE])
                          /\ fi' = [fi EXCEPT !.downloaded_paths = Append(@, output_path),
                                              !.count = @ + 1, !.i = @ + 1]
                     [] download = "stream" ->
                          /\ disk' = Append(disk, [path |-> output_path, whole |-> FALSE])
                          /\ fi' = [fi EXCEPT !.pc = "returned", !.returned = <<>>]
                     [] OTHER ->
                          /\ UNCHANGED disk
                          /\ fi' = [fi EXCEPT !.pc = "returned", !.returned = <<>>]

\* lines 35-36 and 81-83: the loop ends at num_images downloads or at the end
\* of the results, and downloaded_paths is returned
fetch_Return ==
    /\ fi.pc = "loop"
    /\ fi.i > Len(fi.results) \/ fi.count >= fi.num_images
    /\ fi' = [fi EXCEPT !.pc = "returned", !.returned = fi.downloaded_paths]
    /\ UNCHANGED disk

NextFetch ==
    \/ fetch_Search /\ UNCHANGED <<render_vars, cc_vars, sess_vars, nl, docs, doc_writes>>
    \/ fetch_Candidate /\ UNCHANGED <<render_vars, cc_vars, sess_vars, nl, docs, doc_writes>>
    \/ fetch_Return /\ UNCHANGED <<render_vars, cc_vars, sess_vars, nl, docs, doc_writes>>

SpecFetch == InitFetch /\ [][NextFetch]_vars

\* C30: what fetch_images returned has at most num_images paths and is the
\* list of the image files the call wrote to disk in full, in the order it
\* wrote them.
C30_ReturnsWhatItWrote ==
    fi # <<>> /\ fi.pc = "returned" =>
        /\ Len(fi.returned) <= fi.num_images
        /\ LET written == SelectSeq(disk, LAMBDA f : f.whole)
           IN  fi.returned = [k \in 1..Len(written) |-> written[k].path]

====
